---- MODULE Spec2Model ----
(***************************************************************************)
(* A model of the sliding-window voxel renderer of InputMagic-Google:      *)
(* src/src/render/render.ts (Render, the key latch, the palette), with the *)
(* WorldStore (Dimension), the Generator and traverse3DArray, whose code   *)
(* is not part of the sources, modelled from the specification.            *)
(*                                                                         *)
(* Lengths are whole pixels.  Math.cos(5/12 PI) * blockSize = 7.76 and     *)
(* Math.sin(5/12 PI) * blockSize = 28.98 are rounded to the nearest pixel. *)
(***************************************************************************)
EXTENDS Integers, Sequences, FiniteSets, TLC

\* ------------------------------------------------------------------------
\* Bounds of the model (not program constants)
\* ------------------------------------------------------------------------
\* window.innerWidth and window.innerHeight, in pixels
innerWidth == 200
innerHeight == 200
\* number of shifts (rows and columns inserted) in one behaviour
MaxShifts == 3
\* the same, in the behaviours of SpecRebuild (the camera moves up and down)
MaxRebuildShifts == 4
\* number of pointer edits (clicks) in one behaviour
MaxEdits == 1
\* largest horizontal coordinate of a position handed to the conversions
MaxCoord == 2
\* largest length of a text handed to colorVariants
MaxColorLen == 8
\* largest number of entries of an object handed to addNewBlockType
MaxEntries == 2
\* largest number of clicks on one Tile in SpecStack
MaxStackEdits == 2
\* largest number of items of the inventory in SpecWheel
MaxItems == 10
\* largest side of a parallelogram handed to isPointInside
MaxSide == 3

\* ------------------------------------------------------------------------
\* Program constants
\* ------------------------------------------------------------------------
blockSize == 30
renderChunkHeight == 16
renderChunkSize == 8
chunkSize == 8
startPosition == [x |-> -150, y |-> -300]

\* Math.cos((5 / 12) * Math.PI) * blockSize and
\* Math.sin((5 / 12) * Math.PI) * blockSize, to the nearest pixel
CosBlock == (blockSize * 2588 + 5000) \div 10000
SinBlock == (blockSize * 9659 + 5000) \div 10000

CeilDiv(a, b) == (a + b - 1) \div b
\* Math.ceil(renderChunkSize / 2) and Math.floor(renderChunkSize / 2)
HalfUp == CeilDiv(renderChunkSize, 2)
HalfDown == renderChunkSize \div 2

\* (a projection in which the height of a block moves it sideways too)
getRenderFactorSheared(pos) ==
    [x |-> blockSize * pos.x + ((2 * blockSize) \div 3) * pos.y
              - CosBlock * pos.z,
     y |-> ((2 * blockSize) \div 3) * pos.y + SinBlock * pos.z]

getRenderFactor(pos) ==
    [x |-> blockSize * pos.x - CosBlock * pos.z,
     y |-> ((2 * blockSize) \div 3) * pos.y + SinBlock * pos.z]

renderChunkPixiWidth ==
    getRenderFactor([x |-> 1, y |-> 0, z |-> 0]).x * (renderChunkSize + 1)
renderChunkPixiHeight ==
    getRenderFactor([x |-> 0, y |-> 0, z |-> 1]).y * (renderChunkSize + 1)
xMaxChunkLength == CeilDiv(innerWidth, renderChunkPixiWidth) + 5
yMaxChunkLength == CeilDiv(innerHeight, renderChunkPixiHeight) + 5
offsetX == xMaxChunkLength \div 2
offsetY == yMaxChunkLength \div 2

\* ------------------------------------------------------------------------
\* Blocks, the Generator and the WorldStore (Dimension)
\* ------------------------------------------------------------------------
Block(type) == [empty |-> FALSE, type |-> type]
EmptyBlock(type) == [empty |-> TRUE, type |-> type]

P3(x, y, z) == [x |-> x, y |-> y, z |-> z]

\* The cells the generator fills; every other cell is generated Empty.
GenCells ==
    {P3(0, 0, 1),                       \* inside a tile, nothing below it
     P3(4, 4, 0),                       \* on the lines four tiles share
     P3(12, 0, 0),                      \* in the last column of the matrix
     P3(0, -32, 0),                     \* in the first row of the matrix
     P3(1, 1, renderChunkHeight - 1)}   \* at the top of the world

Generator3D(pos) ==
    IF pos \in GenCells
    THEN IF pos.z = 0 THEN Block("stone") ELSE Block("dirt")
    ELSE EmptyBlock("air")

\* dimension is the map of the cells written so far; an unwritten cell
\* holds what the generator gave it.
getBlock(dim, pos) ==
    IF pos \in DOMAIN dim THEN dim[pos] ELSE Generator3D(pos)

setBlock(dim, pos, block) ==
    [p \in (DOMAIN dim) \cup {pos} |-> IF p = pos THEN block ELSE dim[p]]

\* The cells that may hold a non-Empty block.
Candidates(dim) == GenCells \cup DOMAIN dim

InBox(pos, min, max) ==
    /\ min.x <= pos.x /\ pos.x <= max.x
    /\ min.y <= pos.y /\ pos.y <= max.y
    /\ min.z <= pos.z /\ pos.z <= max.z

\* Dimension.getBlockArray(min, max): the dense array of the inclusive box,
\* zero-indexed relative to min, given as the map of its non-Empty cells.
DimensionGetBlockArray(dim, min, max) ==
    LET cells == {p \in Candidates(dim) :
                     InBox(p, min, max) /\ ~getBlock(dim, p).empty}
        local == {P3(p.x - min.x, p.y - min.y, p.z - min.z) : p \in cells}
    IN  [q \in local |->
            getBlock(dim, P3(q.x + min.x, q.y + min.y, q.z + min.z))]

\* (a variant whose box leaves out the upper faces in x and y)
getBlockArrayHalfOpen(dim, center) ==
    DimensionGetBlockArray(dim,
        P3(center.x - HalfUp, center.y - HalfUp, 0),
        P3(center.x + HalfDown - 1, center.y + HalfDown - 1,
           renderChunkHeight - 1))

getBlockArray(dim, center) ==
    DimensionGetBlockArray(dim,
        P3(center.x - HalfUp, center.y - HalfUp, 0),
        P3(center.x + HalfDown, center.y + HalfDown, renderChunkHeight - 1))

\* ------------------------------------------------------------------------
\* Coordinate transforms
\* ------------------------------------------------------------------------
convertBlockPosToRenderBlockPos(blockPos) ==
    P3(blockPos.x, renderChunkHeight - 1 - blockPos.z, blockPos.y)

convertRenderBlockPosToBlockPos(renderBlockPos) ==
    P3(renderBlockPos.x, renderChunkHeight - 1 - renderBlockPos.z,
       renderBlockPos.y)

\* ------------------------------------------------------------------------
\* Colors
\* ------------------------------------------------------------------------
\* A string is the sequence of its characters; "" is <<>>.

\* the digits n.toString(16) writes, by value, and their upper-case forms
HexDigits ==
    <<"0", "1", "2", "3", "4", "5", "6", "7", "8", "9",
      "a", "b", "c", "d", "e", "f">>
UpperHexDigits ==
    <<"0", "1", "2", "3", "4", "5", "6", "7", "8", "9",
      "A", "B", "C", "D", "E", "F">>

\* the character class [\dA-Fa-f]
IsHexChar(ch) ==
    \E i \in 1..16 : HexDigits[i] = ch \/ UpperHexDigits[i] = ch

\* (the same pattern without the anchor at the end)
HexColorPrefixTest(color) ==
    /\ Len(color) >= 7
    /\ color[1] = "#"
    /\ \A i \in 2..7 : IsHexChar(color[i])

\* /^#[\dA-Fa-f]{6}$/.test(color)
HexColorTest(color) ==
    /\ Len(color) = 7
    /\ color[1] = "#"
    /\ \A i \in 2..7 : IsHexChar(color[i])

\* color.slice(from, to)
slice(text, from, to) == SubSeq(text, from + 1, to)

HexValue(ch) ==
    CHOOSE v \in 0..15 : HexDigits[v + 1] = ch \/ UpperHexDigits[v + 1] = ch

\* Number.parseInt(text, 16), for a text of hex digits
RECURSIVE parseInt16(_)
parseInt16(text) ==
    IF text = <<>> THEN 0
    ELSE 16 * parseInt16(SubSeq(text, 1, Len(text) - 1))
            + HexValue(text[Len(text)])

\* n.toString(16), for n >= 0
RECURSIVE toString16(_)
toString16(n) ==
    IF n < 16 THEN <<HexDigits[n + 1]>>
    ELSE toString16(n \div 16) \o <<HexDigits[(n % 16) + 1]>>

\* (no padding: the text as it is)
padStartSkipped(text, length, fill) == text

\* text.padStart(length, fill), for a fill of one character
RECURSIVE padStart(_, _, _)
padStart(text, length, fill) ==
    IF Len(text) >= length THEN text
    ELSE padStart(<<fill>> \o text, length, fill)

Max(a, b) == IF a >= b THEN a ELSE b

\* the channel of variant i: Math.max(0, c - 30 * (i + 1)) in two hex digits
VariantChannel(c, i) ==
    padStart(toString16(Max(0, c - 30 * (i + 1))), 2, "0")

\* colorVariants(color): threw, or the three colors returned
colorVariants(color) ==
    IF ~HexColorTest(color)
    THEN [threw |-> TRUE, value |-> <<>>]
    ELSE LET r == parseInt16(slice(color, 1, 3))
             g == parseInt16(slice(color, 3, 5))
             b == parseInt16(slice(color, 5, 7))
             variant(i) ==
                 <<"#">> \o VariantChannel(r, i) \o VariantChannel(g, i)
                         \o VariantChannel(b, i)
         IN  [threw |-> FALSE,
              value |-> <<color, variant(1), variant(2)>>]

\* ------------------------------------------------------------------------
\* The palette
\* ------------------------------------------------------------------------
InitColorMapper ==
    [t \in {"stone", "sand", "water", "grass", "dirt", "snow"} |->
        CASE t = "stone" -> <<"#", "8", "0", "8", "0", "8", "0">>
          [] t = "sand"  -> <<"#", "f", "0", "e", "6", "8", "c">>
          [] t = "water" -> <<"#", "0", "0", "0", "0", "f", "f">>
          [] t = "grass" -> <<"#", "0", "0", "f", "f", "0", "0">>
          [] t = "dirt"  -> <<"#", "8", "b", "4", "5", "1", "3">>
          [] t = "snow"  -> <<"#", "f", "f", "f", "f", "f", "f">>]

\* ------------------------------------------------------------------------
\* Tiles (ExtendedContainer) and scene nodes (ExtendedSprite)
\* ------------------------------------------------------------------------
ExtendedSprite(color, pos, containerCenter) ==
    [color |-> color, pos |-> pos, containerCenter |-> containerCenter]

\* Render.renderBlock, the part that builds the node and adds it to the
\* container.  Its callers test TextureThrows first where the color may be
\* one getTexture fails on; the palette of the behaviours with shifts holds
\* colors that build only.
renderBlock(color, pos, container, chunkCenter) ==
    [container EXCEPT
        !.children = Append(@, ExtendedSprite(color, pos, chunkCenter))]

\* traverse3DArray visits the cells by x, then y, then z.
TraverseKey(q) ==
    (q.x * (renderChunkSize + 1) + q.y) * renderChunkHeight + q.z

RECURSIVE traverse3DArray(_)
traverse3DArray(cells) ==
    IF cells = {} THEN <<>>
    ELSE LET first == CHOOSE q \in cells :
                        \A o \in cells : TraverseKey(q) <= TraverseKey(o)
         IN  <<first>> \o traverse3DArray(cells \ {first})

RECURSIVE RenderCells(_, _, _, _, _)
RenderCells(order, blockArray, container, chunkcenter, cm) ==
    IF order = <<>> THEN container
    ELSE LET pos == Head(order)
             value == blockArray[pos]
             color == IF value.type \in DOMAIN cm
                      THEN cm[value.type]
                      ELSE <<"#", "0", "0", "0", "0", "0", "0">>
         IN  RenderCells(Tail(order), blockArray,
                 renderBlock(color, convertBlockPosToRenderBlockPos(pos),
                             container, chunkcenter),
                 chunkcenter, cm)

renderRChunk(blockArray, stagePos, chunkcenter, cm) ==
    \* chunkcenter is kept on the container as well: it is the world box
    \* the container was built for (the closures of its nodes capture it).
    LET container == [indexPos |-> [x |-> 0, y |-> 0],
                      x |-> stagePos.x, y |-> stagePos.y,
                      chunkcenter |-> chunkcenter,
                      children |-> <<>>]
    IN  RenderCells(traverse3DArray(DOMAIN blockArray), blockArray,
                    container, chunkcenter, cm)

\* ------------------------------------------------------------------------
\* State
\* ------------------------------------------------------------------------
VARIABLES
    rengerGrid,         \* Render.rengerGrid: rows of container ids, [y][x]
    tiles,              \* the live containers, by id
    stageChildren,      \* app.stage.children: the display list, ids
    stage,              \* app.stage.x, app.stage.y
    currentXOffset,     \* Render.currentXOffset
    currentYOffset,     \* Render.currentYOffset
    center,             \* Render.center
    tickerTaskList,     \* Render.tickerTaskList, the directions of its tasks
    dimension,          \* the WorldStore
    colorMapper,        \* the palette
    selectedBlockType,  \* the type of the last inventory:select
    keyState,           \* the facing latch
    edits,              \* number of pointer edits so far
    shiftCount,         \* number of shifts so far, by direction
    built,              \* the containers the last operation built
    lastOp,             \* the last operation and its inputs and outcome
    call,               \* the last direct call of a function: argument, result
    window,             \* window.innerWidth, window.innerHeight as they are now
    items               \* Inventory.items

vars == <<rengerGrid, tiles, stageChildren, stage, currentXOffset,
          currentYOffset, center, tickerTaskList, dimension, colorMapper,
          selectedBlockType, keyState, edits, shiftCount, built, lastOp,
          call, window, items>>

\* The state the renderer's methods read and write, as one record.
Sys ==
    [rengerGrid |-> rengerGrid, tiles |-> tiles,
     stageChildren |-> stageChildren, stage |-> stage,
     currentXOffset |-> currentXOffset, currentYOffset |-> currentYOffset,
     center |-> center, dimension |-> dimension, colorMapper |-> colorMapper]

Becomes_Init(S) ==
    /\ rengerGrid = S.rengerGrid
    /\ tiles = S.tiles
    /\ stageChildren = S.stageChildren
    /\ stage = S.stage
    /\ currentXOffset = S.currentXOffset
    /\ currentYOffset = S.currentYOffset
    /\ center = S.center
    /\ dimension = S.dimension
    /\ colorMapper = S.colorMapper

Becomes(S) ==
    /\ rengerGrid' = S.rengerGrid
    /\ tiles' = S.tiles
    /\ stageChildren' = S.stageChildren
    /\ stage' = S.stage
    /\ currentXOffset' = S.currentXOffset
    /\ currentYOffset' = S.currentYOffset
    /\ center' = S.center
    /\ dimension' = S.dimension
    /\ colorMapper' = S.colorMapper

\* ------------------------------------------------------------------------
\* Containers in the display list
\* ------------------------------------------------------------------------
Range(s) == {s[i] : i \in 1..Len(s)}
Restrict(f, D) == [k \in D |-> f[k]]

\* n ids no live container has (new ExtendedContainer, n times)
NewIds(S, n) ==
    LET base == IF DOMAIN S.tiles = {} THEN 0
                ELSE 1 + CHOOSE m \in DOMAIN S.tiles :
                             \A k \in DOMAIN S.tiles : k <= m
    IN  [i \in 1..n |-> base + i - 1]

\* (a variant that also empties the cells of the nodes it releases)
RECURSIVE EmptiedBy(_, _)
EmptiedBy(dim, sprites) ==
    IF sprites = <<>> THEN dim
    ELSE EmptiedBy(setBlock(dim,
                            P3(Head(sprites).containerCenter.x - HalfUp
                                   + Head(sprites).pos.x,
                               Head(sprites).containerCenter.y - HalfUp
                                   + Head(sprites).pos.z,
                               renderChunkHeight - Head(sprites).pos.y - 1),
                            EmptyBlock("air")),
                   Tail(sprites))

RECURSIVE ChildrenOf(_, _)
ChildrenOf(S, ids) ==
    IF ids = <<>> THEN <<>>
    ELSE S.tiles[Head(ids)].children \o ChildrenOf(S, Tail(ids))

destroyAndEmpty(S, ids) ==
    [S EXCEPT
        !.tiles = Restrict(@, DOMAIN @ \ Range(ids)),
        !.stageChildren = SelectSeq(@, LAMBDA c : c \notin Range(ids)),
        !.dimension = EmptiedBy(@, ChildrenOf(S, ids))]

\* Container.destroy(), for each of ids: the container leaves its parent's
\* children and is gone.  The WorldStore is not involved.
destroy(S, ids) ==
    [S EXCEPT
        !.tiles = Restrict(@, DOMAIN @ \ Range(ids)),
        !.stageChildren = SelectSeq(@, LAMBDA c : c \notin Range(ids))]

\* Container.addChild(child) where addChildAt is called: the index is
\* not used and the child goes last
addChildLast(children, child, index) == Append(children, child)

\* Container.addChildAt(child, index), index counted from 0
addChildAt(children, child, index) ==
    SubSeq(children, 1, index) \o <<child>>
        \o SubSeq(children, index + 1, Len(children))

\* The containers built by renderRChunk from the WorldStore for the places
\* build[1..n] (arrayCenter, stagePos, chunkcenter), registered under ids.
WithContainers(S, ids, build) ==
    [S EXCEPT !.tiles =
        [k \in DOMAIN @ \cup Range(ids) |->
            IF k \in Range(ids)
            THEN LET i == CHOOSE i \in 1..Len(ids) : ids[i] = k
                 IN  renderRChunk(
                         getBlockArray(S.dimension, build[i].arrayCenter),
                         build[i].stagePos, build[i].chunkcenter,
                         S.colorMapper)
            ELSE @[k]]]

Cell(S, r, c) == S.tiles[S.rengerGrid[r + 1][c + 1]]

\* ------------------------------------------------------------------------
\* initStage
\* ------------------------------------------------------------------------
InitTileCenter(x, y, ctr) ==
    [x |-> (x + ctr.x - offsetX) * chunkSize,
     y |-> (y + ctr.y - offsetY) * chunkSize]

\* (the containers spaced by the blocks of a chunk, without the border)
InitStagePosTight(x, y) ==
    [x |-> getRenderFactor(P3(x, 0, y)).x * renderChunkSize,
     y |-> getRenderFactor(P3(x, 0, y)).y * renderChunkSize]

\* the stage position initStage gives the container of column x, row y
InitStagePos(x, y) ==
    [x |-> getRenderFactor(P3(x, 0, y)).x * (renderChunkSize + 1),
     y |-> getRenderFactor(P3(x, 0, y)).y * (renderChunkSize + 1)]

\* The containers are built row by row, each row from x = 0, and added to
\* the stage in that order.
initStage(S, ctr) ==
    LET n == xMaxChunkLength * yMaxChunkLength
        ids == NewIds(S, n)
        build == [i \in 1..n |->
                    LET x == (i - 1) % xMaxChunkLength
                        y == (i - 1) \div xMaxChunkLength
                    IN  [arrayCenter |-> InitTileCenter(x, y, ctr),
                         stagePos |-> InitStagePos(x, y),
                         chunkcenter |-> InitTileCenter(x, y, ctr)]]
        S1 == WithContainers(S, ids, build)
    IN  [S1 EXCEPT
            !.rengerGrid =
                @ \o [y \in 1..yMaxChunkLength |->
                        [x \in 1..xMaxChunkLength |->
                            ids[(y - 1) * xMaxChunkLength + x]]],
            !.stageChildren = @ \o ids]

\* ------------------------------------------------------------------------
\* The four shifts
\* ------------------------------------------------------------------------
\* this.rengerGrid.pop() and this.rengerGrid.shift(): the matrix without
\* its last, respectively first, row
PopRow(grid) == SubSeq(grid, 1, Len(grid) - 1)
ShiftRow(grid) == SubSeq(grid, 2, Len(grid))

\* (a variant that destroys the last container of a row and leaves its slot)
PopColumnKept(row) == row

\* this.rengerGrid[y].pop() and this.rengerGrid[y].shift(): the row left
PopColumn(row) == SubSeq(row, 1, Len(row) - 1)
ShiftColumn(row) == Tail(row)

Reverse(s) == [i \in 1..Len(s) |-> s[Len(s) + 1 - i]]

RECURSIVE AddAllAtFront(_, _)
\* for (const container of [...row].reverse()) stage.addChildAt(container, 0)
AddAllAtFront(children, reversed) ==
    IF reversed = <<>> THEN children
    ELSE AddAllAtFront(addChildAt(children, Head(reversed), 0),
                       Tail(reversed))

TopRowCenter(S, x) ==
    [x |-> (x + S.currentXOffset - offsetX) * chunkSize,
     y |-> (S.currentYOffset - offsetY) * chunkSize]

addTopRow(S) ==
    LET evicted == S.rengerGrid[Len(S.rengerGrid)]
        S1 == destroy([S EXCEPT !.rengerGrid = PopRow(@)], evicted)
        yStart == Cell(S1, 0, 0).y - renderChunkPixiHeight
        S2 == [S1 EXCEPT !.currentYOffset = @ - 1, !.center.y = @ - 1]
        row == NewIds(S2, xMaxChunkLength)
        build == [i \in 1..xMaxChunkLength |->
                    [arrayCenter |-> TopRowCenter(S2, i - 1),
                     stagePos |->
                        [x |-> getRenderFactor(
                                   P3(i - 1 + S2.currentXOffset, 0,
                                      S2.currentYOffset)).x
                               * (renderChunkSize + 1),
                         y |-> yStart],
                     chunkcenter |-> TopRowCenter(S2, i - 1)]]
    IN  [WithContainers(S2, row, build) EXCEPT
            !.rengerGrid = <<row>> \o @,
            !.stageChildren = AddAllAtFront(@, Reverse(row))]

BottomRowCenter(S, x) ==
    [x |-> (x + S.currentXOffset - offsetX) * chunkSize,
     y |-> (S.currentYOffset - offsetY + yMaxChunkLength) * chunkSize]

addBottomRow(S) ==
    LET evicted == S.rengerGrid[1]
        S1 == destroy([S EXCEPT !.rengerGrid = ShiftRow(@)], evicted)
        yStart == Cell(S1, Len(S1.rengerGrid) - 1, 0).y
                      + renderChunkPixiHeight
        S2 == [S1 EXCEPT !.currentYOffset = @ + 1]
        row == NewIds(S2, xMaxChunkLength)
        build == [i \in 1..xMaxChunkLength |->
                    [arrayCenter |-> BottomRowCenter(S2, i - 1),
                     stagePos |->
                        [x |-> getRenderFactor(
                                   P3(i - 1 + S2.currentXOffset, 0,
                                      yMaxChunkLength - 1
                                          + S2.currentYOffset)).x
                               * (renderChunkSize + 1),
                         y |-> yStart],
                     chunkcenter |-> BottomRowCenter(S2, i - 1)]]
    IN  [WithContainers(S2, row, build) EXCEPT
            !.rengerGrid = Append(@, row),
            !.stageChildren = @ \o row]

RightColumnCenter(S, y) ==
    [x |-> (xMaxChunkLength - 1 + S.currentXOffset) * chunkSize,
     y |-> (y + S.currentYOffset - offsetY) * chunkSize]

\* The display list after the loop of addRightColumn from row y on: the
\* row's first container is destroyed, the new one is added at
\* (y + 1) * xMaxChunkLength - 1.
RECURSIVE RightColumnChildren(_, _, _, _)
RightColumnChildren(children, y, evicted, column) ==
    IF y >= yMaxChunkLength THEN children
    ELSE RightColumnChildren(
             addChildAt(SelectSeq(children, LAMBDA c : c # evicted[y + 1]),
                        column[y + 1], (y + 1) * xMaxChunkLength - 1),
             y + 1, evicted, column)

addRightColumn(S) ==
    LET S1 == [S EXCEPT !.currentXOffset = @ + 1]
        evicted == [y \in 1..yMaxChunkLength |-> Head(S1.rengerGrid[y])]
        column == NewIds(S1, yMaxChunkLength)
        build == [i \in 1..yMaxChunkLength |->
                    LET rowY == S1.rengerGrid[i]
                    IN  [arrayCenter |-> RightColumnCenter(S1, i - 1),
                         stagePos |->
                            [x |-> S1.tiles[rowY[Len(rowY)]].x
                                       + renderChunkPixiWidth,
                             y |-> getRenderFactor(
                                       P3(xMaxChunkLength, 0,
                                          i - 1 + S1.currentYOffset)).y
                                   * (renderChunkSize + 1)],
                         chunkcenter |-> RightColumnCenter(S1, i - 1)]]
        S2 == WithContainers(S1, column, build)
    IN  [S2 EXCEPT
            !.tiles = Restrict(@, DOMAIN @ \ Range(evicted)),
            !.rengerGrid = [y \in 1..yMaxChunkLength |->
                              Append(ShiftColumn(@[y]), column[y])],
            !.stageChildren = RightColumnChildren(@, 0, evicted, column)]

LeftColumnCenter(S, y) ==
    [x |-> (0 + S.currentXOffset - offsetX) * chunkSize,
     y |-> (y + S.currentYOffset - offsetY) * chunkSize]

RECURSIVE LeftColumnChildren(_, _, _, _)
LeftColumnChildren(children, y, evicted, column) ==
    IF y >= yMaxChunkLength THEN children
    ELSE LeftColumnChildren(
             addChildAt(SelectSeq(children, LAMBDA c : c # evicted[y + 1]),
                        column[y + 1], y * xMaxChunkLength),
             y + 1, evicted, column)

\* (currentXOffset is left as it was)
addLeftColumnUncounted(S) ==
    LET S1 == S
        evicted == [y \in 1..yMaxChunkLength |->
                       S1.rengerGrid[y][Len(S1.rengerGrid[y])]]
        column == NewIds(S1, yMaxChunkLength)
        build == [i \in 1..yMaxChunkLength |->
                    [arrayCenter |-> LeftColumnCenter(S1, i - 1),
                     stagePos |->
                        [x |-> S1.tiles[S1.rengerGrid[i][1]].x
                                   - renderChunkPixiWidth,
                         y |-> getRenderFactor(
                                   P3(xMaxChunkLength, 0,
                                      i - 1 + S1.currentYOffset)).y
                               * (renderChunkSize + 1)],
                     chunkcenter |-> LeftColumnCenter(S1, i - 1)]]
        S2 == WithContainers(S1, column, build)
    IN  [S2 EXCEPT
            !.tiles = Restrict(@, DOMAIN @ \ Range(evicted)),
            !.rengerGrid = [y \in 1..yMaxChunkLength |->
                              <<column[y]>> \o PopColumn(@[y])],
            !.stageChildren = LeftColumnChildren(@, 0, evicted, column)]

addLeftColumn(S) ==
    LET S1 == [S EXCEPT !.currentXOffset = @ - 1]
        evicted == [y \in 1..yMaxChunkLength |->
                       S1.rengerGrid[y][Len(S1.rengerGrid[y])]]
        column == NewIds(S1, yMaxChunkLength)
        build == [i \in 1..yMaxChunkLength |->
                    [arrayCenter |-> LeftColumnCenter(S1, i - 1),
                     stagePos |->
                        [x |-> S1.tiles[S1.rengerGrid[i][1]].x
                                   - renderChunkPixiWidth,
                         y |-> getRenderFactor(
                                   P3(xMaxChunkLength, 0,
                                      i - 1 + S1.currentYOffset)).y
                               * (renderChunkSize + 1)],
                     chunkcenter |-> LeftColumnCenter(S1, i - 1)]]
        S2 == WithContainers(S1, column, build)
    IN  [S2 EXCEPT
            !.tiles = Restrict(@, DOMAIN @ \ Range(evicted)),
            !.rengerGrid = [y \in 1..yMaxChunkLength |->
                              <<column[y]>> \o PopColumn(@[y])],
            !.stageChildren = LeftColumnChildren(@, 0, evicted, column)]

\* ------------------------------------------------------------------------
\* The boundary predicates and the per-tick maintenance
\* ------------------------------------------------------------------------
\* The comparisons with half a tile are made on doubled values.  win is
\* the window as it is at the call: innerWidth and innerHeight are read anew.
willOutOfScreen(S, win) ==
    LET rows == Len(S.rengerGrid)
        cols == Len(S.rengerGrid[1])
        leftContainer == Cell(S, 0, 0)
        rightContainer == Cell(S, rows - 1, cols - 1)
        topContainer == Cell(S, 0, 0)
        bottomContainer == Cell(S, rows - 1, 0)
    IN  (IF 2 * (S.stage.x + leftContainer.x) > -renderChunkPixiWidth
         THEN {"left"} ELSE {})
        \cup
        (IF 2 * (S.stage.x + rightContainer.x)
               < 2 * win.innerWidth - renderChunkPixiWidth
         THEN {"right"} ELSE {})
        \cup
        (IF 2 * (S.stage.y + topContainer.y) > -renderChunkPixiHeight
         THEN {"top"} ELSE {})
        \cup
        (IF 2 * (S.stage.y + bottomContainer.y)
               < 2 * win.innerHeight - renderChunkPixiHeight
         THEN {"bottom"} ELSE {})

\* for i < yMaxChunkLength, j < xMaxChunkLength:
\*     this.rengerGrid[i][j].indexPos = { x: i, y: j }
IndexSlots(S) ==
    {ij \in (0..(yMaxChunkLength - 1)) \X (0..(xMaxChunkLength - 1)) :
        /\ ij[1] + 1 <= Len(S.rengerGrid)
        /\ ij[2] + 1 <= Len(S.rengerGrid[ij[1] + 1])}

IndexOf(assigned, id) == (CHOOSE p \in assigned : p[1] = id)[2]

reassignIndexBy(S, assigned) ==
    [S EXCEPT !.tiles =
        [id \in DOMAIN @ |->
            IF \E p \in assigned : p[1] = id
            THEN [@[id] EXCEPT !.indexPos = [x |-> IndexOf(assigned, id)[1],
                                             y |-> IndexOf(assigned, id)[2]]]
            ELSE @[id]]]

\* (a variant that leaves the stored indices as they are)
reassignIndexSkipped(S) == S

reassignIndex(S) ==
    reassignIndexBy(S, {<<S.rengerGrid[ij[1] + 1][ij[2] + 1], ij>> :
                           ij \in IndexSlots(S)})

\* moveFunctions, applied for every task of tickerTaskList
moveStage(st, tasks, deltaTime) ==
    [x |-> st.x + (IF "left" \in tasks THEN deltaTime * 4 ELSE 0)
                - (IF "right" \in tasks THEN deltaTime * 4 ELSE 0),
     y |-> st.y + (IF "up" \in tasks THEN deltaTime * 4 ELSE 0)
                - (IF "down" \in tasks THEN deltaTime * 4 ELSE 0)]

\* (the right shift repeated while its test still holds)
tickerUntilQuiet(S, tasks, deltaTime, win) ==
    LET S0 == [S EXCEPT !.stage = moveStage(@, tasks, deltaTime)]
        top == "top" \in willOutOfScreen(S0, win)
        S1 == IF top THEN addTopRow(S0) ELSE S0
        bottom == "bottom" \in willOutOfScreen(S1, win)
        S2 == IF bottom THEN addBottomRow(S1) ELSE S1
        right == "right" \in willOutOfScreen(S2, win)
        R1 == IF right THEN addRightColumn(S2) ELSE S2
        S3 == IF right /\ "right" \in willOutOfScreen(R1, win)
              THEN addRightColumn(R1) ELSE R1
        left == "left" \in willOutOfScreen(S3, win)
        S4 == IF left THEN addLeftColumn(S3) ELSE S3
    IN  [S |-> reassignIndex(S4),
         ran |-> (IF top THEN {"top"} ELSE {})
                 \cup (IF bottom THEN {"bottom"} ELSE {})
                 \cup (IF right THEN {"right"} ELSE {})
                 \cup (IF left THEN {"left"} ELSE {})]

\* The ticker callback of Render.init: the tasks move the stage, then the
\* four tests in their order, each on the matrix the earlier shifts left,
\* then reassignIndex.  ran: the shifts that ran.
ticker(S, tasks, deltaTime, win) ==
    LET S0 == [S EXCEPT !.stage = moveStage(@, tasks, deltaTime)]
        top == "top" \in willOutOfScreen(S0, win)
        S1 == IF top THEN addTopRow(S0) ELSE S0
        bottom == "bottom" \in willOutOfScreen(S1, win)
        S2 == IF bottom THEN addBottomRow(S1) ELSE S1
        right == "right" \in willOutOfScreen(S2, win)
        S3 == IF right THEN addRightColumn(S2) ELSE S2
        left == "left" \in willOutOfScreen(S3, win)
        S4 == IF left THEN addLeftColumn(S3) ELSE S3
    IN  [S |-> reassignIndex(S4),
         ran |-> (IF top THEN {"top"} ELSE {})
                 \cup (IF bottom THEN {"bottom"} ELSE {})
                 \cup (IF right THEN {"right"} ELSE {})
                 \cup (IF left THEN {"left"} ELSE {})]

\* Container ids are names only.  At the end of an operation the live
\* containers are named by their matrix position, rengerGrid[r][c] by
\* r * GridWidth + c
\* (a container outside the matrix keeps a name above those), so that two
\* states that differ only in the names are one state.
GridSlots(S) ==
    UNION {{<<r, c>> : c \in 1..Len(S.rengerGrid[r])} :
              r \in 1..Len(S.rengerGrid)}

\* rows are named in strides of GridWidth, wider than any row gets
GridWidth == 2 * xMaxChunkLength

SlotName(rc) == (rc[1] - 1) * GridWidth + (rc[2] - 1)

\* the pairs <<id, name>> of the containers in the matrix
SlotNames(S) ==
    {<<S.rengerGrid[rc[1]][rc[2]], SlotName(rc)>> : rc \in GridSlots(S)}

NameIn(named, base, id) ==
    IF \E p \in named : p[1] = id
    THEN (CHOOSE p \in named : p[1] = id)[2]
    ELSE base + id

NameOf(S, id) == NameIn(SlotNames(S), Len(S.rengerGrid) * GridWidth, id)

RenamedBy(S, named, base) ==
    [S EXCEPT
        !.rengerGrid = [r \in 1..Len(@) |->
                          [c \in 1..Len(@[r]) |-> SlotName(<<r, c>>)]],
        !.tiles = [n \in {NameIn(named, base, id) : id \in DOMAIN @} |->
                      IF n < base
                      THEN @[S.rengerGrid[(n \div GridWidth) + 1]
                                         [(n % GridWidth) + 1]]
                      ELSE @[n - base]],
        !.stageChildren = [i \in 1..Len(@) |-> NameIn(named, base, @[i])]]

Renamed(S) == RenamedBy(S, SlotNames(S), Len(S.rengerGrid) * GridWidth)

\* ------------------------------------------------------------------------
\* The facing latch (keyState) and its two listeners
\* ------------------------------------------------------------------------
null == 0
NaN == -1

\* Number.parseInt(event.key, 10) for the keys of the model
parseInt(key) ==
    CASE key = "0" -> 0 [] key = "1" -> 1 [] key = "2" -> 2
      [] key = "3" -> 3 [] key = "4" -> 4 [] key = "5" -> 5
      [] key = "6" -> 6 [] key = "7" -> 7
      [] OTHER -> NaN

\* (a variant that latches on every digit key)
keydownAnyDigit(ks, eventKey) ==
    LET key == parseInt(eventKey)
    IN  IF key >= 0 /\ key <= 9
        THEN [lastKey |-> key, isActive |-> TRUE]
        ELSE ks

keydown(ks, eventKey) ==
    LET key == parseInt(eventKey)
    IN  IF key >= 1 /\ key <= 6
        THEN [lastKey |-> key, isActive |-> TRUE]
        ELSE ks

\* (the key is forgotten, the flag stays)
keyupKeepsFlag(ks, eventKey) ==
    LET key == parseInt(eventKey)
    IN  IF key >= 1 /\ key <= 6
        THEN [lastKey |-> null, isActive |-> ks.isActive]
        ELSE ks

keyup(ks, eventKey) ==
    LET key == parseInt(eventKey)
    IN  IF key >= 1 /\ key <= 6
        THEN [lastKey |-> null, isActive |-> FALSE]
        ELSE ks

\* ------------------------------------------------------------------------
\* The edit protocol: the pointerdown listener of a scene node
\* ------------------------------------------------------------------------
absolutePos(sprite) ==
    P3(sprite.containerCenter.x - HalfUp + sprite.pos.x,
       sprite.containerCenter.y - HalfUp + sprite.pos.z,
       renderChunkHeight - sprite.pos.y - 1)

\* (the color of the type selected at load, whatever is selected)
PlaceColorAtLoad(cm, type) ==
    IF "grass" \in DOMAIN cm /\ cm["grass"] # <<>> THEN cm["grass"]
    ELSE <<"#", "0", "0", "f", "f", "0", "0">>

\* colorMapper[selectedBlockType] || "#00ff00"
PlaceColor(cm, type) ==
    IF type \in DOMAIN cm /\ cm[type] # <<>> THEN cm[type]
    ELSE <<"#", "0", "0", "f", "f", "0", "0">>

\* getTexture(color): createGraphics hands the color to colorVariants, which
\* throws for a color it rejects; no texture is cached for such a color.
TextureThrows(color) == colorVariants(color).threw

\* extractFirstKey(path): the path up to its first ".".  A path is held as
\* the sequence of the texts its dots separate.
extractFirstKey(path) == Head(path)

\* blockData.includes("#")
IncludesHash(blockData) == \E i \in 1..Len(blockData) : blockData[i] = "#"

\* (no test of the value: every entry is taken)
TakesAny(blockData) == TRUE

\* if (!blockData.includes("#")) continue
Takes(blockData) == IncludesHash(blockData)

\* Inventory.addItem: this.items.unshift(item)
addItem(inv, item) == <<item>> \o inv

\* Render.addNewBlockType(aiBlockData): for every entry, in the order of the
\* object's keys, the palette and the inventory get the type and the color.
RECURSIVE addNewBlockType(_, _, _)
addNewBlockType(cm, inv, aiBlockData) ==
    IF aiBlockData = <<>> THEN [colorMapper |-> cm, items |-> inv]
    ELSE LET key == Head(aiBlockData).key
             keyMody == extractFirstKey(key)
             blockData == Head(aiBlockData).value
         IN  IF ~Takes(blockData)
             THEN addNewBlockType(cm, inv, Tail(aiBlockData))
             ELSE addNewBlockType(
                      [k \in DOMAIN cm \cup {keyMody} |->
                          IF k = keyMody THEN blockData ELSE cm[k]],
                      addItem(inv, [type |-> keyMody, color |-> blockData]),
                      Tail(aiBlockData))

\* this.rengerGrid[i] and this.rengerGrid[i][j] are defined
RowDefined(S, i) == i \in 0..(Len(S.rengerGrid) - 1)
ColDefined(S, i, j) == j \in 0..(Len(S.rengerGrid[i + 1]) - 1)

RenderInto(S, id, color, pos, chunkCenter) ==
    [S EXCEPT !.tiles[id] = renderBlock(color, pos, @, chunkCenter)]

Write(S, pos, block) ==
    [S EXCEPT !.dimension = setBlock(@, pos, block)]

Returned(S) == [S |-> S, threw |-> FALSE]
\* (the error is caught and the listener returns)
Swallowed(S) == [S |-> S, threw |-> FALSE]

\* A TypeError leaves the listener; what was done before it stays.
Thrown(S) == [S |-> S, threw |-> TRUE]

\* this.rengerGrid[i][j] as the container of a renderBlock call: reading a
\* row that does not exist throws, and so does adding a child to a
\* container that does not exist.
NeighborDefined(S, i, j) == RowDefined(S, i) /\ ColDefined(S, i, j)

PlaceKey1(S, id, sprite, type) ==
    LET pos == sprite.pos
        abs == absolutePos(sprite)
        idx == S.tiles[id].indexPos
        color == PlaceColor(S.colorMapper, type)
        target == P3(abs.x, abs.y + 1, abs.z)
    IN  IF TextureThrows(color) THEN Thrown(S)
        ELSE IF pos.z + 1 < chunkSize + 1
        THEN Returned(Write(
                 RenderInto(S, id, color, P3(pos.x, pos.y, pos.z + 1),
                            sprite.containerCenter),
                 target, Block(type)))
        ELSE IF ~NeighborDefined(S, idx.x + 1, idx.y) THEN Thrown(S)
        ELSE Returned(Write(
                 RenderInto(S, S.rengerGrid[idx.x + 2][idx.y + 1], color,
                            P3(pos.x, pos.y, (pos.z + 1) % (chunkSize + 1)),
                            sprite.containerCenter),
                 target, Block(type)))

PlaceKey2(S, id, sprite, type) ==
    LET pos == sprite.pos
        abs == absolutePos(sprite)
        idx == S.tiles[id].indexPos
        color == PlaceColor(S.colorMapper, type)
        S1 == Write(S, P3(abs.x, abs.y - 1, abs.z), Block(type))
    IN  IF TextureThrows(color) THEN Thrown(S1)
        ELSE IF pos.z - 1 >= 0
        THEN Returned(RenderInto(S1, id, color,
                                 P3(pos.x, pos.y, pos.z - 1),
                                 sprite.containerCenter))
        ELSE IF ~NeighborDefined(S1, idx.x - 1, idx.y) THEN Thrown(S1)
        ELSE Returned(RenderInto(S1, S1.rengerGrid[idx.x][idx.y + 1], color,
                                 P3(pos.x, pos.y, pos.z - 1 + chunkSize + 1),
                                 sprite.containerCenter))

PlaceKey3(S, id, sprite, type) ==
    LET pos == sprite.pos
        abs == absolutePos(sprite)
        idx == S.tiles[id].indexPos
        color == PlaceColor(S.colorMapper, type)
        target == P3(abs.x - 1, abs.y, abs.z)
    IN  IF TextureThrows(color) THEN Thrown(S)
        ELSE IF pos.x - 1 >= 0
        THEN Returned(Write(
                 RenderInto(S, id, color, P3(pos.x - 1, pos.y, pos.z),
                            sprite.containerCenter),
                 target, Block(type)))
        ELSE IF ~NeighborDefined(S, idx.x, idx.y - 1) THEN Thrown(S)
        ELSE Returned(Write(
                 RenderInto(S, S.rengerGrid[idx.x + 1][idx.y], color,
                            P3(pos.x - 1 + chunkSize + 1, pos.y, pos.z),
                            sprite.containerCenter),
                 target, Block(type)))

PlaceKey4(S, id, sprite, type) ==
    LET pos == sprite.pos
        abs == absolutePos(sprite)
        idx == S.tiles[id].indexPos
        color == PlaceColor(S.colorMapper, type)
        target == P3(abs.x + 1, abs.y, abs.z)
    IN  IF TextureThrows(color) THEN Thrown(S)
        ELSE IF pos.x + 1 < chunkSize + 1
        THEN Returned(Write(
                 RenderInto(S, id, color, P3(pos.x + 1, pos.y, pos.z),
                            sprite.containerCenter),
                 target, Block(type)))
        ELSE IF ~NeighborDefined(S, idx.x, idx.y + 1) THEN Thrown(S)
        ELSE Returned(Write(
                 RenderInto(S, S.rengerGrid[idx.x + 1][idx.y + 2], color,
                            P3((pos.x + 1) % (chunkSize + 1), pos.y, pos.z),
                            sprite.containerCenter),
                 target, Block(type)))

\* dimension.getBlock(pos) instanceof EmptyBlock.  A read outside the height
\* range gives no EmptyBlock (or fails); either way the branch is not taken.
ReadsEmpty(dim, pos) ==
    /\ pos.z \in 0..(renderChunkHeight - 1)
    /\ getBlock(dim, pos).empty

\* the default branch of the switch: keys 5 and 6
PlaceKey56(S, id, sprite, type, lastKey) ==
    LET pos == sprite.pos
        abs == absolutePos(sprite)
        color == PlaceColor(S.colorMapper, type)
    IN  IF /\ lastKey = 5
           /\ ReadsEmpty(S.dimension, P3(abs.x, abs.y, abs.z + 1))
           /\ abs.z + 1 < renderChunkHeight
        THEN IF TextureThrows(color) THEN Thrown(S)
        ELSE Returned(Write(
                 RenderInto(S, id, color, P3(pos.x, pos.y - 1, pos.z),
                            sprite.containerCenter),
                 P3(abs.x, abs.y, abs.z + 1), Block(type)))
        ELSE IF /\ lastKey = 6
                /\ ReadsEmpty(S.dimension, P3(abs.x, abs.y, abs.z - 1))
                /\ abs.z - 1 > 0
        THEN IF TextureThrows(color) THEN Thrown(S)
        ELSE Returned(Write(
                 RenderInto(S, id, color, P3(pos.x, pos.y + 1, pos.z),
                            sprite.containerCenter),
                 P3(abs.x, abs.y, abs.z - 1), Block(type)))
        ELSE Returned(S)

\* The positions the listener hands to dimension.getBlock: the first
\* operand after the key test of each condition of the default branch,
\* evaluated before the test of the height.
getBlockCalls(ks, sprite) ==
    LET abs == absolutePos(sprite)
    IN  IF ~ks.isActive THEN {}
        ELSE IF ks.lastKey = 5 THEN {P3(abs.x, abs.y, abs.z + 1)}
        ELSE IF ks.lastKey = 6 THEN {P3(abs.x, abs.y, abs.z - 1)}
        ELSE {}

RemoveAt(s, n) == SubSeq(s, 1, n - 1) \o SubSeq(s, n + 1, Len(s))

\* removeChild alone: the node goes, the store keeps its block
RemoveChildOnly(S, id, n) ==
    Returned([S EXCEPT !.tiles[id].children = RemoveAt(@, n)])

\* the else branch: sprite.parent.removeChild(sprite) and setBlock(Empty)
RemoveNode(S, id, n) ==
    LET sprite == S.tiles[id].children[n]
    IN  Returned(Write(
            [S EXCEPT !.tiles[id].children = RemoveAt(@, n)],
            absolutePos(sprite), EmptyBlock("air")))

\* pointerdown with event.button = 0 on node n of container id
pointerdown(S, ks, type, id, n) ==
    LET sprite == S.tiles[id].children[n]
    IN  IF ks.isActive
        THEN CASE ks.lastKey = 1 -> PlaceKey1(S, id, sprite, type)
               [] ks.lastKey = 2 -> PlaceKey2(S, id, sprite, type)
               [] ks.lastKey = 3 -> PlaceKey3(S, id, sprite, type)
               [] ks.lastKey = 4 -> PlaceKey4(S, id, sprite, type)
               [] OTHER -> PlaceKey56(S, id, sprite, type, ks.lastKey)
        ELSE RemoveNode(S, id, n)

\* ------------------------------------------------------------------------
\* Initial state: the module has been loaded and render.initStage() has run
\* ------------------------------------------------------------------------
Directions == {"up", "down", "left", "right"}

\* time.deltaTime of a tick, in frames: 68 frames move the stage by about
\* one tile width
DeltaTimes == {68}

\* The keys of the keyboard events
Keys == {"0", "1", "2", "3", "4", "5", "6", "7", "w"}

\* The types of the inventory:select events
SelectTypes == {"stone", "sand", "water", "grass", "dirt", "snow"}

NoSprite ==
    ExtendedSprite(<<>>, P3(0, 0, 0), [x |-> 0, y |-> 0])

NoOp ==
    [op |-> "init", key |-> "", tile |-> -1, node |-> 0,
     sprite |-> NoSprite, threw |-> FALSE]

\* for (const key in colorMapper) inventory.addItem(...): every type of the
\* palette, the last one first
PaletteOrder == <<"stone", "sand", "water", "grass", "dirt", "snow">>

\* Inventory.LENGTH: the slots the inventory draws
LENGTH == 9

RECURSIVE AddAll(_, _, _)
AddAll(inv, cm, keys) ==
    IF keys = <<>> THEN inv
    ELSE AddAll(addItem(inv, [type |-> Head(keys), color |-> cm[Head(keys)]]),
                cm, Tail(keys))

InitItems == AddAll(<<>>, InitColorMapper, PaletteOrder)

\* The window has the size it had when the module was loaded
LoadedWindow == [innerWidth |-> innerWidth, innerHeight |-> innerHeight]

\* no pure function has been called yet
NoCall == [fn |-> "", arg |-> <<>>, out |-> <<>>, threw |-> FALSE]

Constructed ==
    [rengerGrid |-> <<>>, tiles |-> <<>>, stageChildren |-> <<>>,
     stage |-> [x |-> 0, y |-> 0],
     currentXOffset |-> 0, currentYOffset |-> 0,
     center |-> [x |-> 0, y |-> 0],
     dimension |-> <<>>, colorMapper |-> InitColorMapper]

Init ==
    /\ LET R == Renamed(initStage(Constructed, [x |-> 0, y |-> 0]))
       IN  Becomes_Init(R)
    /\ tickerTaskList = {}
    /\ selectedBlockType = "grass"
    /\ keyState = [lastKey |-> null, isActive |-> FALSE]
    /\ edits = 0
    /\ shiftCount = [d \in {"top", "bottom", "left", "right"} |-> 0]
    /\ built = DOMAIN tiles
    /\ lastOp = NoOp
    /\ call = NoCall
    /\ window = LoadedWindow
    /\ items = InitItems

\* ------------------------------------------------------------------------
\* Actions
\* ------------------------------------------------------------------------
\* eventBus "player:move": the task list is replaced by the directions
PlayerMove(directions) ==
    /\ tickerTaskList' = directions
    /\ lastOp' = [NoOp EXCEPT !.op = "player:move"]
    /\ UNCHANGED <<rengerGrid, tiles, stageChildren, stage, currentXOffset,
                   currentYOffset, center, dimension, colorMapper,
                   selectedBlockType, keyState, edits, shiftCount, built,
                   call, window, items>>

Count(c, ran) ==
    [d \in DOMAIN c |-> IF d \in ran THEN c[d] + 1 ELSE c[d]]

Total(c) == c["top"] + c["bottom"] + c["left"] + c["right"]

\* One frame: the ticker callback runs to its end
Tick(deltaTime, maxShifts) ==
    LET t == ticker(Sys, tickerTaskList, deltaTime, window)
        S == t.S
        R == Renamed(S)
    IN  /\ Total(Count(shiftCount, t.ran)) <= maxShifts
        /\ Becomes(R)
        /\ shiftCount' = Count(shiftCount, t.ran)
        /\ built' = {NameOf(S, id) : id \in DOMAIN S.tiles \ DOMAIN tiles}
        /\ lastOp' = [NoOp EXCEPT !.op = "tick"]
        /\ UNCHANGED <<tickerTaskList, selectedBlockType, keyState, edits,
                       call, window, items>>

\* window "keydown" and "keyup"
KeyDown(key) ==
    /\ keyState' = keydown(keyState, key)
    /\ lastOp' = [NoOp EXCEPT !.op = "keydown", !.key = key]
    /\ UNCHANGED <<rengerGrid, tiles, stageChildren, stage, currentXOffset,
                   currentYOffset, center, tickerTaskList, dimension,
                   colorMapper, selectedBlockType, edits, shiftCount, built,
                   call, window, items>>

KeyUp(key) ==
    /\ keyState' = keyup(keyState, key)
    /\ lastOp' = [NoOp EXCEPT !.op = "keyup", !.key = key]
    /\ UNCHANGED <<rengerGrid, tiles, stageChildren, stage, currentXOffset,
                   currentYOffset, center, tickerTaskList, dimension,
                   colorMapper, selectedBlockType, edits, shiftCount, built,
                   call, window, items>>

\* eventBus "inventory:select"
InventorySelect(type) ==
    /\ selectedBlockType' = type
    /\ lastOp' = [NoOp EXCEPT !.op = "inventory:select", !.key = type]
    /\ UNCHANGED <<rengerGrid, tiles, stageChildren, stage, currentXOffset,
                   currentYOffset, center, tickerTaskList, dimension,
                   colorMapper, keyState, edits, shiftCount, built, call,
                   window, items>>

\* A primary-button pointerdown on node n of container id
ClickWithin(id, n, maxEdits) ==
    /\ edits < maxEdits
    /\ id \in DOMAIN tiles
    /\ n \in 1..Len(tiles[id].children)
    /\ LET r == pointerdown(Sys, keyState, selectedBlockType, id, n)
           R == r.S
       IN  /\ Becomes(R)
           /\ lastOp' = [NoOp EXCEPT !.op = "click", !.tile = id,
                                     !.node = n,
                                     !.sprite = tiles[id].children[n],
                                     !.threw = r.threw]
    /\ edits' = edits + 1
    /\ built' = {}
    /\ UNCHANGED <<tickerTaskList, selectedBlockType, keyState, shiftCount,
                   call, window, items>>

Click(id, n) == ClickWithin(id, n, MaxEdits)

\* The directions of the keys held in the behaviours of SpecShift
MoveSets ==
    {{}, {"up"}, {"down"}, {"left"}, {"right"}, {"down", "right"}}

\* The camera pans and the matrix follows: no edits
NextShift ==
    \/ \E directions \in MoveSets : PlayerMove(directions)
    \/ \E deltaTime \in DeltaTimes : Tick(deltaTime, MaxShifts)

SpecShift == Init /\ [][NextShift]_vars

\* The keyboard and the inventory: the latch and the selected type
NextInput ==
    \/ \E key \in Keys : KeyDown(key)
    \/ \E key \in Keys : KeyUp(key)
    \/ \E type \in SelectTypes : InventorySelect(type)

SpecInput == Init /\ [][NextInput]_vars

\* Edits with the camera at rest
NextEdit ==
    \/ \E deltaTime \in DeltaTimes : Tick(deltaTime, MaxShifts)
    \/ \E key \in {"1", "2", "3", "4", "5", "6"} : KeyDown(key)
    \/ \E key \in {"1", "2", "3", "4", "5", "6"} : KeyUp(key)
    \/ \E type \in {"stone"} : InventorySelect(type)
    \/ \E id \in DOMAIN tiles : \E n \in 1..Len(tiles[id].children) :
           Click(id, n)

SpecEdit == Init /\ [][NextEdit]_vars

\* Edits, eviction and re-entry: the camera moves down and up, and the
\* clicks land on the first matrix row, the one a bottom shift evicts.
NextRebuild ==
    \/ \E directions \in {{}, {"up"}, {"down"}} : PlayerMove(directions)
    \/ \E deltaTime \in DeltaTimes : Tick(deltaTime, MaxRebuildShifts)
    \/ KeyDown("1")
    \/ KeyUp("1")
    \/ \E c \in 1..Len(rengerGrid[1]) :
           \E n \in 1..Len(tiles[rengerGrid[1][c]].children) :
               Click(rengerGrid[1][c], n)

SpecRebuild == Init /\ [][NextRebuild]_vars

\* the containers of the last matrix row and of the last matrix column
EdgeTiles ==
    Range(rengerGrid[Len(rengerGrid)])
        \cup {rengerGrid[r][Len(rengerGrid[r])] : r \in 1..Len(rengerGrid)}

\* Edits at the edge of the matrix: the camera rests or moves up, and the
\* clicks land on the last row and the last column.
NextEdge ==
    \/ \E directions \in {{}, {"up"}} : PlayerMove(directions)
    \/ \E deltaTime \in DeltaTimes : Tick(deltaTime, MaxRebuildShifts)
    \/ \E key \in {"1", "4"} : KeyDown(key)
    \/ \E id \in EdgeTiles : \E n \in 1..Len(tiles[id].children) :
           Click(id, n)

SpecEdge == Init /\ [][NextEdge]_vars

\* the containers over the chunk at the origin
OriginTiles ==
    {id \in DOMAIN tiles : tiles[id].chunkcenter = [x |-> 0, y |-> 0]}

\* Repeated edits of one Tile: the camera rests, a type is selected, and
\* up to MaxStackEdits clicks land on the Tile over the origin.
NextStack ==
    \/ \E deltaTime \in DeltaTimes : Tick(deltaTime, MaxShifts)
    \/ \E key \in {"4", "5"} : KeyDown(key)
    \/ InventorySelect("stone")
    \/ \E id \in OriginTiles : \E n \in 1..Len(tiles[id].children) :
           ClickWithin(id, n, MaxStackEdits)

SpecStack == Init /\ [][NextStack]_vars

\* The camera jumps and rests: a frame lasts one or two of DeltaTimes, and
\* in the longer one the stage moves by two tile widths.
NextJump ==
    \/ \E directions \in {{}, {"right"}, {"down"}} : PlayerMove(directions)
    \/ \E deltaTime \in DeltaTimes : \E frames \in 1..2 :
           Tick(frames * deltaTime, MaxRebuildShifts)

SpecJump == Init /\ [][NextJump]_vars

\* Every variable of the renderer stays as it is
RenderUnchanged ==
    UNCHANGED <<rengerGrid, tiles, stageChildren, stage, currentXOffset,
                currentYOffset, center, tickerTaskList, dimension,
                colorMapper, selectedBlockType, keyState, edits, shiftCount,
                built, lastOp, window, items>>

\* The positions the conversions are applied to: heights 0 .. H - 1 (the
\* third coordinate of a BlockPos, the second of a RenderBlockPos)
BlockPositions ==
    {P3(x, y, z) : x \in -MaxCoord..MaxCoord, y \in -MaxCoord..MaxCoord,
                   z \in 0..(renderChunkHeight - 1)}

RenderBlockPositions ==
    {P3(x, y, z) : x \in -MaxCoord..MaxCoord,
                   y \in 0..(renderChunkHeight - 1),
                   z \in -MaxCoord..MaxCoord}

CallConvertBlockPos(blockPos) ==
    /\ call' = [fn |-> "convertBlockPosToRenderBlockPos", arg |-> blockPos,
                out |-> convertBlockPosToRenderBlockPos(blockPos),
                threw |-> FALSE]
    /\ RenderUnchanged

CallConvertRenderBlockPos(renderBlockPos) ==
    /\ call' = [fn |-> "convertRenderBlockPosToBlockPos",
                arg |-> renderBlockPos,
                out |-> convertRenderBlockPosToBlockPos(renderBlockPos),
                threw |-> FALSE]
    /\ RenderUnchanged

NextConvert ==
    \/ \E blockPos \in BlockPositions : CallConvertBlockPos(blockPos)
    \/ \E renderBlockPos \in RenderBlockPositions :
           CallConvertRenderBlockPos(renderBlockPos)

SpecConvert == Init /\ [][NextConvert]_vars

\* The state after load, but for the argument of the call to come
Loaded ==
    /\ Becomes_Init(Renamed(initStage(Constructed, [x |-> 0, y |-> 0])))
    /\ tickerTaskList = {}
    /\ selectedBlockType = "grass"
    /\ keyState = [lastKey |-> null, isActive |-> FALSE]
    /\ edits = 0
    /\ shiftCount = [d \in {"top", "bottom", "left", "right"} |-> 0]
    /\ built = DOMAIN tiles
    /\ lastOp = NoOp
    /\ window = LoadedWindow
    /\ items = InitItems

\* The render position a caller is about to hand to getRenderFactor
InitProject ==
    /\ Loaded
    /\ call \in {[NoCall EXCEPT !.arg = pos] : pos \in RenderBlockPositions}

CallGetRenderFactor ==
    /\ call.fn = ""
    /\ call' = [fn |-> "getRenderFactor", arg |-> call.arg,
                out |-> getRenderFactor(call.arg), threw |-> FALSE]
    /\ RenderUnchanged

SpecProject == InitProject /\ [][CallGetRenderFactor]_vars

\* (the weight of x + z no larger than the largest term of y)
zIndexFlat(pos) == (pos.x + pos.z) * 100 - pos.y * 10

\* renderBlock: sprite.zIndex = (pos.x + pos.z) * 100000 - pos.y * 10
zIndex(pos) == (pos.x + pos.z) * 100000 - pos.y * 10

\* The render positions of the blocks of one Tile, near its origin
TilePositions ==
    {P3(x, y, z) : x \in 0..MaxCoord, y \in 0..(renderChunkHeight - 1),
                   z \in 0..MaxCoord}

\* Two blocks renderBlock is about to draw into one Tile
InitDraw ==
    /\ Loaded
    /\ call \in {[NoCall EXCEPT !.arg = <<p, q>>] :
                    p \in TilePositions, q \in TilePositions}

CallZIndex ==
    /\ call.fn = ""
    /\ call' = [fn |-> "zIndex", arg |-> call.arg,
                out |-> <<zIndex(call.arg[1]), zIndex(call.arg[2])>>,
                threw |-> FALSE]
    /\ RenderUnchanged

SpecDraw == InitDraw /\ [][CallZIndex]_vars

\* The centers handed to initStage: the default and one off the origin
Centers == {[x |-> 0, y |-> 0], [x |-> 1, y |-> 2]}

\* The state after render.initStage(center), for the centers above
InitAt ==
    /\ \E ctr \in Centers :
          /\ Becomes_Init(Renamed(initStage(Constructed, ctr)))
          /\ call = [fn |-> "initStage", arg |-> ctr, out |-> <<>>,
                     threw |-> FALSE]
    /\ tickerTaskList = {}
    /\ selectedBlockType = "grass"
    /\ keyState = [lastKey |-> null, isActive |-> FALSE]
    /\ edits = 0
    /\ shiftCount = [d \in {"top", "bottom", "left", "right"} |-> 0]
    /\ built = DOMAIN tiles
    /\ lastOp = NoOp
    /\ window = LoadedWindow
    /\ items = InitItems

\* The camera pans after initStage(center)
SpecCenter == InitAt /\ [][NextShift]_vars

\* The texts of a channel: the values around the steps of 30 * (i + 1),
\* in both cases of the digits
ChannelTexts ==
    {<<"0", "0">>, <<"1", "d">>, <<"1", "E">>, <<"3", "B">>, <<"3", "c">>,
     <<"3", "d">>, <<"5", "a">>, <<"5", "B">>, <<"8", "0">>, <<"F", "0">>,
     <<"f", "f">>}

\* '#' and six hex digits
HexColors ==
    {<<"#">> \o r \o g \o b :
        r \in ChannelTexts, g \in ChannelTexts, b \in ChannelTexts}

\* The texts of up to MaxColorLen characters over '#', a hex digit and a
\* letter that is none
Texts ==
    UNION {[1..n -> {"#", "c", "g"}] : n \in 0..MaxColorLen}

\* The state after load, with the color a caller is about to hand to
\* colorVariants
InitColor ==
    /\ Becomes_Init(Renamed(initStage(Constructed, [x |-> 0, y |-> 0])))
    /\ tickerTaskList = {}
    /\ selectedBlockType = "grass"
    /\ keyState = [lastKey |-> null, isActive |-> FALSE]
    /\ edits = 0
    /\ shiftCount = [d \in {"top", "bottom", "left", "right"} |-> 0]
    /\ built = DOMAIN tiles
    /\ lastOp = NoOp
    /\ window = LoadedWindow
    /\ items = InitItems
    /\ call \in {[NoCall EXCEPT !.arg = color] :
                    color \in HexColors \cup Texts}

CallColorVariants ==
    /\ call.fn = ""
    /\ LET r == colorVariants(call.arg)
       IN  call' = [fn |-> "colorVariants", arg |-> call.arg,
                    out |-> r.value, threw |-> r.threw]
    /\ RenderUnchanged

SpecColor == InitColor /\ [][CallColorVariants]_vars

\* The keys of aiBlockData, as the texts their dots separate: a dotted
\* path with a new type and a type the palette has
KeyPaths == {<<"lava", "color">>, <<"stone">>}

\* The values of aiBlockData: a color, a short color, a text without '#'
\* and a text with '#' that is no color
BlockDataTexts ==
    {<<"#", "c", "c", "c", "c", "c", "c">>, <<"#", "c", "c", "c">>,
     <<"c", "c", "c", "c", "c", "c">>, <<"g", "#">>}

Entries == [key : KeyPaths, value : BlockDataTexts]

\* The objects handed to addNewBlockType, as the sequence of their entries
AiBlockData == UNION {[1..n -> Entries] : n \in 1..MaxEntries}

\* newBlock(): render.addNewBlockType(result)
AddNewBlockType(aiBlockData) ==
    /\ Len(items) + Len(aiBlockData) <= Len(InitItems) + MaxEntries
    /\ LET r == addNewBlockType(colorMapper, items, aiBlockData)
       IN  /\ colorMapper' = r.colorMapper
           /\ items' = r.items
    /\ lastOp' = [NoOp EXCEPT !.op = "addNewBlockType"]
    /\ UNCHANGED <<rengerGrid, tiles, stageChildren, stage, currentXOffset,
                   currentYOffset, center, tickerTaskList, dimension,
                   selectedBlockType, keyState, edits, shiftCount, built,
                   call, window>>

\* Inventory.handleSelect(index), for a slot the inventory draws
Select(index) ==
    /\ index \in 0..(LENGTH - 1) /\ index < Len(items)
    /\ InventorySelect(items[index + 1].type)

\* New block types, their selection and Places with them, before the
\* first frame
NextPalette ==
    \/ \E aiBlockData \in AiBlockData : AddNewBlockType(aiBlockData)
    \/ \E index \in 0..(LENGTH - 1) : Select(index)
    \/ \E key \in {"1", "2"} : KeyDown(key)
    \/ \E c \in {offsetX + 1} :
           \E n \in 1..Len(tiles[rengerGrid[offsetY + 1][c]].children) :
               Click(rengerGrid[offsetY + 1][c], n)

SpecPalette == Init /\ [][NextPalette]_vars

\* The values of a parsed JSON text: a string, or an object given as the
\* sequence of its entries in the order of Object.keys
Leaf(text) == [object |-> FALSE, text |-> text, entries |-> <<>>]
Obj(entries) == [object |-> TRUE, text |-> <<>>, entries |-> entries]

\* result[newKey] = value: a key the object has keeps its place
Put(result, newKey, value) ==
    IF \E i \in 1..Len(result) : result[i].key = newKey
    THEN [i \in 1..Len(result) |->
             IF result[i].key = newKey
             THEN [key |-> newKey, value |-> value] ELSE result[i]]
    ELSE Append(result, [key |-> newKey, value |-> value])

\* flattenJson(obj, parentKey, result); a key is the sequence of the
\* segments its dots separate
RECURSIVE flattenJson(_, _, _)
flattenJson(obj, parentKey, result) ==
    IF obj = <<>> THEN result
    ELSE LET key == Head(obj).key
             newKey == IF parentKey # <<>> THEN parentKey \o <<key>>
                       ELSE <<key>>
             value == Head(obj).value
         IN  flattenJson(
                 Tail(obj), parentKey,
                 IF value.object
                 THEN flattenJson(value.entries, newKey, result)
                 ELSE Put(result, newKey, value.text))

\* The recipes the model answers with: block names, each with a color and
\* a description, or with a color alone
BlockNames == {"lava", "stone"}
BlockColors ==
    {<<"#", "c", "c", "c", "c", "c", "c">>,
     <<"#", "1", "2", "3", "4", "5", "6">>}
BlockDescriptions ==
    {<<"h", "o", "t">>, <<"n", "o", "#", "1">>, <<>>}
RecipeValues ==
    {Obj(<<[key |-> "blockcolor", value |-> Leaf(c)],
           [key |-> "blockdes", value |-> Leaf(d)]>>) :
        c \in BlockColors, d \in BlockDescriptions}
        \cup {Leaf(c) : c \in BlockColors}
Recipes ==
    {r \in UNION {[1..n -> [key : BlockNames, value : RecipeValues]] :
                     n \in 1..MaxEntries} :
        \A i, j \in 1..Len(r) : r[i].key = r[j].key => i = j}

\* The parsed answer newBlock() is about to flatten
InitRecipe ==
    /\ Loaded
    /\ call \in {[NoCall EXCEPT !.arg = recipe] : recipe \in Recipes}

\* newBlock(): result = blockMaker(request), which returns
\* flattenJson(nestedJson); render.addNewBlockType(result)
NewBlock ==
    /\ call.fn = ""
    /\ LET result == flattenJson(call.arg, <<>>, <<>>)
           r == addNewBlockType(colorMapper, items, result)
       IN  /\ colorMapper' = r.colorMapper
           /\ items' = r.items
           /\ call' = [fn |-> "newBlock", arg |-> call.arg, out |-> result,
                       threw |-> FALSE]
    /\ lastOp' = [NoOp EXCEPT !.op = "addNewBlockType"]
    /\ UNCHANGED <<rengerGrid, tiles, stageChildren, stage, currentXOffset,
                   currentYOffset, center, tickerTaskList, dimension,
                   selectedBlockType, keyState, edits, shiftCount, built,
                   window>>

SpecRecipe == InitRecipe /\ [][NewBlock]_vars

\* (an else-if chain: the first pressed key alone gives a direction)
handleKeyChangeFirst(pressedKeys) ==
    IF "w" \in pressedKeys THEN {"up"}
    ELSE IF "s" \in pressedKeys THEN {"down"}
    ELSE IF "a" \in pressedKeys THEN {"left"}
    ELSE IF "d" \in pressedKeys THEN {"right"}
    ELSE {}

\* PlayerMovementHandler.handleKeyChange: the directions it emits
handleKeyChange(pressedKeys) ==
    (IF "w" \in pressedKeys THEN {"up"} ELSE {})
        \cup (IF "s" \in pressedKeys THEN {"down"} ELSE {})
        \cup (IF "a" \in pressedKeys THEN {"left"} ELSE {})
        \cup (IF "d" \in pressedKeys THEN {"right"} ELSE {})

\* The pressedKeys of the keychange events
PressedSets ==
    {{}, {"w"}, {"d"}, {"e"}, {"w", "s"}, {"a", "d"}, {"d", "e"},
     {"w", "a", "s"}}

\* eventBus "keychange": handleKeyChange emits player:move, and the
\* renderer's handler replaces its task list
KeyChange(pressedKeys) ==
    /\ tickerTaskList' = handleKeyChange(pressedKeys)
    /\ call' = [fn |-> "handleKeyChange", arg |-> pressedKeys,
                out |-> handleKeyChange(pressedKeys), threw |-> FALSE]
    /\ lastOp' = [NoOp EXCEPT !.op = "player:move"]
    /\ UNCHANGED <<rengerGrid, tiles, stageChildren, stage, currentXOffset,
                   currentYOffset, center, dimension, colorMapper,
                   selectedBlockType, keyState, edits, shiftCount, built,
                   window, items>>

\* The keys w, s, a, d pan the camera
NextPan ==
    \/ \E pressedKeys \in PressedSets : KeyChange(pressedKeys)
    \/ \E deltaTime \in DeltaTimes : Tick(deltaTime, MaxShifts)

SpecPan == Init /\ [][NextPan]_vars

\* The slot whose element has the class "active": the one the last wheel
\* event selected; draw() rebuilds the elements without the class, and
\* findIndex then returns -1.
activeIndex == IF call.fn = "wheel" THEN call.out ELSE -1

Min(a, b) == IF a < b THEN a ELSE b

\* (the next slot whatever the number of items)
wheelPastItems(active, length, deltaY) ==
    IF deltaY > 0
    THEN IF active < LENGTH - 1 THEN active + 1 ELSE 0
    ELSE IF active > 0 THEN active - 1
         ELSE Min(LENGTH - 1, length - 1)

\* The wheel listener: the index it hands to handleSelect
wheel(active, length, deltaY) ==
    IF deltaY > 0
    THEN IF active < LENGTH - 1 /\ active < length - 1 THEN active + 1
         ELSE 0
    ELSE IF active > 0 THEN active - 1
         ELSE Min(LENGTH - 1, length - 1)

\* document "wheel": the listener and handleSelect(index), which throws
\* when this.element.children[index] is undefined
Wheel(deltaY) ==
    LET index == wheel(activeIndex, Len(items), deltaY)
        drawn == index \in 0..(Min(LENGTH, Len(items)) - 1)
    IN  /\ call' = [fn |-> "wheel", arg |-> deltaY,
                    out |-> IF drawn THEN index ELSE -1,
                    threw |-> ~drawn]
        /\ selectedBlockType' = IF drawn THEN items[index + 1].type
                                ELSE selectedBlockType
        /\ lastOp' = [NoOp EXCEPT
                         !.op = "wheel", !.threw = ~drawn,
                         !.key = IF drawn THEN items[index + 1].type ELSE ""]
        /\ UNCHANGED <<rengerGrid, tiles, stageChildren, stage,
                       currentXOffset, currentYOffset, center,
                       tickerTaskList, dimension, colorMapper, keyState,
                       edits, shiftCount, built, window, items>>

\* newBlock() with an answer of one block: addItem draws the inventory anew
AddBlock ==
    /\ Len(items) < MaxItems
    /\ LET r == addNewBlockType(
                    colorMapper, items,
                    <<[key |-> <<"lava", "blockcolor">>,
                       value |-> <<"#", "c", "c", "c", "c", "c", "c">>]>>)
       IN  /\ colorMapper' = r.colorMapper
           /\ items' = r.items
    /\ call' = NoCall
    /\ lastOp' = [NoOp EXCEPT !.op = "addNewBlockType"]
    /\ UNCHANGED <<rengerGrid, tiles, stageChildren, stage, currentXOffset,
                   currentYOffset, center, tickerTaskList, dimension,
                   selectedBlockType, keyState, edits, shiftCount, built,
                   window>>

\* The wheel turns over an inventory that grows
NextWheel ==
    \/ \E deltaY \in {-100, 0, 100} : Wheel(deltaY)
    \/ AddBlock

SpecWheel == Init /\ [][NextWheel]_vars

\* The cross product of the vectors AP and BP
crossProduct(A, B, P) ==
    (P.x - A.x) * (P.y - B.y) - (P.y - A.y) * (P.x - B.x)

\* The dot product of the vectors PA and PB
dotProduct(A, B, P) ==
    (A.x - P.x) * (B.x - P.x) + (A.y - P.y) * (B.y - P.y)

\* The loop of isPointInside from the edge i (counted from 0), with the
\* product multi of the cross products before it
RECURSIVE isPointInsideFrom(_, _, _, _)
isPointInsideFrom(Shape, P, i, multi) ==
    IF i >= Len(Shape) THEN multi > 0
    ELSE LET A == Shape[i + 1]
             B == Shape[((i + 1) % Len(Shape)) + 1]
             crossResult == crossProduct(A, B, P)
         IN  IF crossResult = 0 /\ dotProduct(A, B, P) > 0 THEN FALSE
             ELSE IF crossResult = 0 /\ dotProduct(A, B, P) < 0 THEN TRUE
             ELSE isPointInsideFrom(Shape, P, i + 1, multi * crossResult)

isPointInside(Shape, P) == isPointInsideFrom(Shape, P, 0, 1)

\* The parallelograms of the tests kept in the file, and others of their
\* form: a base on the x axis, sides up to MaxSide, counter-clockwise
Parallelograms ==
    {<<[x |-> 0, y |-> 0], [x |-> w, y |-> 0], [x |-> w + s, y |-> h],
       [x |-> s, y |-> h]>> :
        w \in 1..MaxSide, h \in 1..MaxSide, s \in 0..1}

PointsAround ==
    {[x |-> x, y |-> y] : x \in -1..(MaxSide + 2), y \in -1..(MaxSide + 1)}

\* The polygon and the point a caller is about to hand to isPointInside
InitInside ==
    /\ Loaded
    /\ call \in {[NoCall EXCEPT !.arg = [Shape |-> Shape, P |-> P]] :
                    Shape \in Parallelograms, P \in PointsAround}

CallIsPointInside ==
    /\ call.fn = ""
    /\ call' = [fn |-> "isPointInside", arg |-> call.arg,
                out |-> isPointInside(call.arg.Shape, call.arg.P),
                threw |-> FALSE]
    /\ RenderUnchanged

SpecInside == InitInside /\ [][CallIsPointInside]_vars

\* The sizes the browser window is resized to: the size at load, and
\* larger in either direction
WideWidth == 2000
TallHeight == 2000
WindowSizes ==
    {[innerWidth |-> w, innerHeight |-> h] :
        w \in {innerWidth, WideWidth}, h \in {innerHeight, TallHeight}}

\* The browser window is resized: the renderer resizes its canvas
\* (resizeTo: window); the matrix keeps the dimensions computed at load.
Resize(size) ==
    /\ size # window
    /\ window' = size
    /\ lastOp' = [NoOp EXCEPT !.op = "resize"]
    /\ UNCHANGED <<rengerGrid, tiles, stageChildren, stage, currentXOffset,
                   currentYOffset, center, tickerTaskList, dimension,
                   colorMapper, selectedBlockType, keyState, edits,
                   shiftCount, built, call, items>>

\* The camera pans or rests and the window is resized
NextResize ==
    \/ \E directions \in {{}, {"down"}} : PlayerMove(directions)
    \/ \E deltaTime \in DeltaTimes : Tick(deltaTime, MaxShifts)
    \/ \E size \in WindowSizes : Resize(size)

SpecResize == Init /\ [][NextResize]_vars

\* ------------------------------------------------------------------------
\* Properties
\* ------------------------------------------------------------------------
Rows == 0..(Len(rengerGrid) - 1)
Cols(r) == 0..(Len(rengerGrid[r + 1]) - 1)
TileAt(r, c) == tiles[rengerGrid[r + 1][c + 1]]
MatrixIds == UNION {{rengerGrid[r + 1][c + 1] : c \in Cols(r)} : r \in Rows}

\* C1: after any number of ticks the matrix has yMaxChunkLength rows of
\* xMaxChunkLength slots each, and every slot holds a live Tile of its own.
C1_MatrixShape ==
    /\ Len(rengerGrid) = yMaxChunkLength
    /\ \A r \in Rows : Len(rengerGrid[r + 1]) = xMaxChunkLength
    /\ MatrixIds \subseteq DOMAIN tiles
    /\ Cardinality(MatrixIds) = yMaxChunkLength * xMaxChunkLength

\* a tick in which a row or column was inserted, after shifts on both axes
C1_Witness ==
    /\ C1_MatrixShape
    /\ lastOp.op = "tick" /\ built # {}
    /\ shiftCount["top"] >= 1 /\ shiftCount["left"] >= 1
    /\ shiftCount["bottom"] + shiftCount["right"] >= 1

\* C2: matrix row r covers the chunk row r + currentYOffset - offsetY,
\* whatever rows were inserted above and below: every Tile of row r is
\* centred on that chunk row.
C2_RowsCoverAdjacentChunks ==
    \A r \in Rows : \A c \in Cols(r) :
        TileAt(r, c).chunkcenter.y
            = (r + currentYOffset - offsetY) * chunkSize

\* C3: matrix column c covers the chunk column c + currentXOffset - offsetX,
\* whatever columns were inserted left and right.
C3_ColumnsCoverAdjacentChunks ==
    \A r \in Rows : \A c \in Cols(r) :
        TileAt(r, c).chunkcenter.x
            = (c + currentXOffset - offsetX) * chunkSize

IndexCurrent ==
    \A r \in Rows : \A c \in Cols(r) :
        TileAt(r, c).indexPos = [x |-> r, y |-> c]

\* C4: at the end of every tick the index stored in the Tile at matrix
\* position (r, c) is (r, c), whichever shifts ran in the tick.
C4_IndexAfterTick == lastOp.op = "tick" => IndexCurrent

\* a tick that ran a shift, after shifts on both axes
C4_Witness ==
    /\ lastOp.op = "tick" /\ IndexCurrent
    /\ built # {}
    /\ Total(shiftCount) >= 3

Plus(p, q) == P3(p.x + q.x, p.y + q.y, p.z + q.z)
Minus(p, q) == P3(p.x - q.x, p.y - q.y, p.z - q.z)

\* The world box of a Tile: its origin and the test of membership
TileOrigin(tile) ==
    P3(tile.chunkcenter.x - HalfUp, tile.chunkcenter.y - HalfUp, 0)

InTileBox(p, tile) ==
    InBox(p, TileOrigin(tile),
          P3(tile.chunkcenter.x + HalfDown, tile.chunkcenter.y + HalfDown,
             renderChunkHeight - 1))

\* The world position of a node drawn in a Tile
NodeWorldPos(tile, sprite) ==
    Plus(TileOrigin(tile),
         P3(sprite.pos.x, sprite.pos.z,
            renderChunkHeight - 1 - sprite.pos.y))

\* C5: no tick writes the WorldStore: the block getBlock returns for a cell
\* is the same before a Tile covering it is evicted, while it is outside
\* the window and after it re-enters; only the Place and Remove of a click
\* change a stored block.
C5_OnlyEditsChangeBlocks ==
    [][(\E p \in DOMAIN dimension \cup DOMAIN dimension' :
            getBlock(dimension', p) # getBlock(dimension, p))
          => lastOp'.op = "click"]_vars

\* a tick that rebuilt, after a bottom shift, a Tile over an edited cell
C5_Witness ==
    /\ lastOp.op = "tick"
    /\ shiftCount["bottom"] >= 1 /\ shiftCount["top"] >= 2
    /\ \E id \in built : \E p \in DOMAIN dimension :
           InTileBox(p, tiles[id])

\* the non-Empty cells of the WorldStore in the world box of a Tile
StoredIn(tile) ==
    {p \in Candidates(dimension) :
        InTileBox(p, tile) /\ ~getBlock(dimension, p).empty}

NodePositions(tile) ==
    {NodeWorldPos(tile, tile.children[i]) : i \in 1..Len(tile.children)}

\* C6: a Tile built on entering the window has exactly one node for every
\* non-Empty block the WorldStore holds in its world box at build time, and
\* none for an Empty cell.
C6_BuiltFromStore ==
    \A id \in built :
        /\ NodePositions(tiles[id]) = StoredIn(tiles[id])
        /\ Len(tiles[id].children) = Cardinality(StoredIn(tiles[id]))

\* a Tile rebuilt on re-entry shows the block a Place stored in its box
C6_Witness ==
    /\ lastOp.op = "tick"
    /\ shiftCount["bottom"] >= 1
    /\ \E id \in built : \E p \in DOMAIN dimension :
           /\ ~getBlock(dimension, p).empty
           /\ p \in NodePositions(tiles[id])

\* The digit keys of the six facings
FacingOf ==
    ("1" :> 1) @@ ("2" :> 2) @@ ("3" :> 3) @@ ("4" :> 4) @@ ("5" :> 5)
        @@ ("6" :> 6)

Neutral == [lastKey |-> null, isActive |-> FALSE]
Facing(d) == [lastKey |-> d, isActive |-> TRUE]

\* C7: the latch leaves Facing(d) for Neutral only in a keyup of the digit
\* d; the keyup of another digit of 1..6 while Facing(d) leaves the latch
\* as it is.
C7_ClearedByMatchingKeyupOnly ==
    [][/\ (keyState.isActive /\ keyState' = Neutral)
            => /\ lastOp'.op = "keyup"
               /\ lastOp'.key \in DOMAIN FacingOf
               /\ FacingOf[lastOp'.key] = keyState.lastKey
       /\ (/\ keyState.isActive
           /\ lastOp'.op = "keyup"
           /\ lastOp'.key \in DOMAIN FacingOf
           /\ FacingOf[lastOp'.key] # keyState.lastKey)
            => keyState' = keyState]_vars

\* C8: the keydown of a digit d of 1..6 sets the latch to Facing(d) whatever
\* it was; the keydown or keyup of any other key leaves the latch as it is.
C8_KeydownLatches ==
    [][/\ (lastOp'.op = "keydown" /\ lastOp'.key \in DOMAIN FacingOf)
            => keyState' = Facing(FacingOf[lastOp'.key])
       /\ (/\ lastOp'.op \in {"keydown", "keyup"}
           /\ lastOp'.key \notin DOMAIN FacingOf)
            => keyState' = keyState]_vars

\* the keydown of a key outside 1..6 with the latch set
C8_Witness ==
    /\ lastOp.op = "keydown" /\ lastOp.key = "7"
    /\ keyState = Facing(3)

\* The neighbor offsets of the six facings, in world coordinates
FacingOffset ==
    <<P3(0, 1, 0), P3(0, -1, 0), P3(-1, 0, 0), P3(1, 0, 0), P3(0, 0, 1),
      P3(0, 0, -1)>>

\* In a click step: the clicked block and the neighbor the latch faces
ClickedPos == NodeWorldPos(tiles[lastOp'.tile], lastOp'.sprite)
NeighborPos == Plus(ClickedPos, FacingOffset[keyState.lastKey])

\* A click with the latch set, the matrix indices current (as any tick
\* leaves them) and the neighbor within the height range
PlaceStep ==
    /\ lastOp'.op = "click"
    /\ keyState.isActive
    /\ IndexCurrent
    /\ NeighborPos.z \in 0..(renderChunkHeight - 1)

\* C9: a click with the latch Facing(d) on a block at p, with p plus the
\* offset of d within the height range, leaves the WorldStore holding a
\* Material block of the selected type at p plus the offset (stated for
\* the clicks whose listener runs to its end).
C9_PlaceWritesNeighbor ==
    [][(PlaceStep /\ ~lastOp'.threw)
          => getBlock(dimension', NeighborPos) = Block(selectedBlockType)]_vars

\* the Tile of the next state that got a node in the step, if one did
GrownTiles ==
    {id \in DOMAIN tiles :
        Len(tiles'[id].children) = Len(tiles[id].children) + 1}

\* C10: the node a Place adds goes into the Tile whose world box contains
\* the neighbor position, at the render position of the neighbor's world
\* position relative to that Tile's origin.
C10_NodeInNeighborTile ==
    [][(PlaceStep /\ GrownTiles # {})
          => \A id \in GrownTiles :
                LET tile == tiles'[id]
                    node == tile.children[Len(tile.children)]
                IN  /\ InTileBox(NeighborPos, tile)
                    /\ node.pos = convertBlockPosToRenderBlockPos(
                                      Minus(NeighborPos, TileOrigin(tile)))
      ]_vars

\* ------------------------------------------------------------------------
\* Position resolution of clickable nodes
\* ------------------------------------------------------------------------
\* the last node of a Tile: the one a Place has just added
LastNode(tile) == tile.children[Len(tile.children)]

\* C11: the absolute BlockPos the pointerdown listener resolves for a
\* node equals the world position where the WorldStore holds the block
\* the node shows; stated for the node a Place adds: the position
\* resolved for it is the neighbor position the same Place wrote, and the
\* WorldStore holds the placed block there.
C11_ResolvedPosIsStoredPos ==
    [][(PlaceStep /\ ~lastOp'.threw /\ GrownTiles # {})
          => \A id \in GrownTiles :
                LET node == LastNode(tiles'[id])
                IN  /\ absolutePos(node) = NeighborPos
                    /\ getBlock(dimension', absolutePos(node))
                         = Block(selectedBlockType)
      ]_vars

\* ------------------------------------------------------------------------
\* Remove
\* ------------------------------------------------------------------------
\* A click with the latch Neutral
RemoveStep ==
    /\ lastOp'.op = "click"
    /\ ~keyState.isActive

\* C12: a click on a node with the latch Neutral removes exactly that
\* node from its Tile and sets the WorldStore block at the position
\* resolved for the node to Empty; no other node and no block at any other
\* position changes.
C12_RemoveExactlyOne ==
    [][RemoveStep
          => LET id == lastOp'.tile
                 n == lastOp'.node
                 at == absolutePos(tiles[id].children[n])
             IN  /\ tiles' = [tiles EXCEPT ![id].children = RemoveAt(@, n)]
                 /\ Len(tiles'[id].children) = Len(tiles[id].children) - 1
                 /\ getBlock(dimension', at).empty
                 /\ \A p \in (Candidates(dimension) \cup Candidates(dimension'))
                                \ {at} :
                        getBlock(dimension', p) = getBlock(dimension, p)
      ]_vars

\* a Remove has emptied the cell of a block the generator supplies
C12_Witness ==
    /\ lastOp.op = "click"
    /\ ~keyState.isActive
    /\ ~lastOp.threw
    /\ lastOp.sprite.color # <<>>
    /\ ~Generator3D(absolutePos(lastOp.sprite)).empty
    /\ getBlock(dimension, absolutePos(lastOp.sprite)).empty

\* ------------------------------------------------------------------------
\* The position conversions
\* ------------------------------------------------------------------------
\* C13: convertBlockPosToRenderBlockPos and
\* convertRenderBlockPosToBlockPos are mutual inverses: converting a
\* position with a height in [0, H) one way and back the other way returns
\* the position.
C13_MutualInverses ==
    /\ call.fn = "convertBlockPosToRenderBlockPos"
          => convertRenderBlockPosToBlockPos(call.out) = call.arg
    /\ call.fn = "convertRenderBlockPosToBlockPos"
          => convertBlockPosToRenderBlockPos(call.out) = call.arg

\* ------------------------------------------------------------------------
\* The display list
\* ------------------------------------------------------------------------
\* C14: after initStage and after every shift the stage's display list
\* holds exactly rows * cols Tiles, the child at display index r * cols + c
\* is the Tile at matrix position [r][c], and no evicted Tile is in it.
C14_DisplayListRowMajor ==
    /\ Len(stageChildren) = yMaxChunkLength * xMaxChunkLength
    /\ \A r \in Rows : \A c \in Cols(r) :
          /\ r * xMaxChunkLength + c + 1 \in DOMAIN stageChildren
          /\ stageChildren[r * xMaxChunkLength + c + 1]
                = rengerGrid[r + 1][c + 1]
    /\ Range(stageChildren) \subseteq DOMAIN tiles

\* a tick that inserted a row or column, after a row shift and column
\* shifts on both sides
C14_Witness ==
    /\ C14_DisplayListRowMajor
    /\ lastOp.op = "tick" /\ built # {}
    /\ shiftCount["top"] + shiftCount["bottom"] >= 1
    /\ shiftCount["left"] >= 1 /\ shiftCount["right"] >= 1

\* ------------------------------------------------------------------------
\* The window and the center handed to initStage
\* ------------------------------------------------------------------------
\* the center initStage was called with
RequestedCenter == call.arg

\* Tiles next to each other in the matrix cover chunks next to each other
\* in the world
WorldAdjacent ==
    \A r \in Rows : \A c \in Cols(r) :
        /\ (c + 1) \in Cols(r)
              => /\ TileAt(r, c + 1).chunkcenter.x
                       = TileAt(r, c).chunkcenter.x + chunkSize
                 /\ TileAt(r, c + 1).chunkcenter.y
                       = TileAt(r, c).chunkcenter.y
        /\ (r + 1) \in Rows /\ c \in Cols(r + 1)
              => /\ TileAt(r + 1, c).chunkcenter.y
                       = TileAt(r, c).chunkcenter.y + chunkSize
                 /\ TileAt(r + 1, c).chunkcenter.x
                       = TileAt(r, c).chunkcenter.x

\* C15: for any center passed to initStage, the Tile at [r][c] initially
\* covers the chunk (c + center.x - offsetX, r + center.y - offsetY), and
\* the edge Tiles later shifts insert are world-adjacent to the Tiles they
\* border (stated for the shifts at the top and left edges).
C15_WindowAroundCenter ==
    /\ lastOp.op = "init"
          => \A r \in Rows : \A c \in Cols(r) :
                TileAt(r, c).chunkcenter
                    = [x |-> (c + RequestedCenter.x - offsetX) * chunkSize,
                       y |-> (r + RequestedCenter.y - offsetY) * chunkSize]
    /\ (shiftCount["bottom"] = 0 /\ shiftCount["right"] = 0)
          => WorldAdjacent

\* ------------------------------------------------------------------------
\* The world boxes of the Tiles
\* ------------------------------------------------------------------------
\* the world columns of the box a Tile is built from (getBlockArray)
BoxColumns(tile) ==
    {[x |-> x, y |-> y] :
        x \in (tile.chunkcenter.x - HalfUp)..(tile.chunkcenter.x + HalfDown),
        y \in (tile.chunkcenter.y - HalfUp)..(tile.chunkcenter.y + HalfDown)}

\* the world columns a Tile draws a node for
DrawnColumns(tile) ==
    {[x |-> p.x, y |-> p.y] : p \in NodePositions(tile)}

\* C16: every Tile covers a world box of exactly chunkSize x chunkSize
\* = 8 x 8 columns, and the world boxes of distinct Tiles of the matrix
\* are pairwise disjoint: no world column is drawn in two Tiles.
C16_TileBoxesDisjoint ==
    /\ \A id \in MatrixIds :
          Cardinality(BoxColumns(tiles[id])) = chunkSize * chunkSize
    /\ \A id1 \in MatrixIds : \A id2 \in MatrixIds \ {id1} :
          /\ BoxColumns(tiles[id1]) \cap BoxColumns(tiles[id2]) = {}
          /\ DrawnColumns(tiles[id1]) \cap DrawnColumns(tiles[id2]) = {}

\* ------------------------------------------------------------------------
\* The boundary predicates with the camera at rest
\* ------------------------------------------------------------------------
\* the boundary predicates that fire in the current state
Firing == willOutOfScreen(Sys, window)

\* C17: with the camera stationary the maintenance never inserts an edge
\* that the opposite predicate evicts again: in the state a tick leaves,
\* top and bottom, and left and right, never both fire, and a tick with
\* the camera at rest leaves a state in which none of the four fires.
C17_NoOppositePredicates ==
    lastOp.op = "tick"
       => /\ ~({"top", "bottom"} \subseteq Firing)
          /\ ~({"left", "right"} \subseteq Firing)
          /\ tickerTaskList = {} => Firing = {}

\* ------------------------------------------------------------------------
\* colorVariants
\* ------------------------------------------------------------------------
\* '#' followed by exactly six hexadecimal digits
SixDigitHex(color) ==
    /\ Len(color) = 7
    /\ Head(color) = "#"
    /\ \A ch \in Range(Tail(color)) :
          ch \in Range(HexDigits) \cup Range(UpperHexDigits)

\* the value of the channel ch (0: red, 1: green, 2: blue) of a color
Channel(color, ch) == parseInt16(SubSeq(color, 2 + 2 * ch, 3 + 2 * ch))

Returns == call.fn = "colorVariants" /\ ~call.threw

\* C18: for a valid '#RRGGBB' input colorVariants returns exactly three
\* well-formed colors; the first is the input itself, and each channel of
\* the k-th later variant (k = 1, 2) is max(0, channel - 30 * (k + 1)).
C18_ThreeVariants ==
    (call.fn = "colorVariants" /\ SixDigitHex(call.arg))
       => /\ ~call.threw
          /\ Len(call.out) = 3
          /\ call.out[1] = call.arg
          /\ \A k \in 1..2 :
                /\ SixDigitHex(call.out[k + 1])
                /\ \A ch \in 0..2 :
                      Channel(call.out[k + 1], ch)
                         = Max(0, Channel(call.arg, ch) - 30 * (k + 1))

\* variants of a color with a channel that stays above 0 and one that is
\* cut off at 0, the latter written with a leading zero
C18_Witness ==
    /\ Returns
    /\ call.arg = <<"#", "F", "0", "3", "d", "1", "E">>
    /\ call.out[2] = <<"#", "b", "4", "0", "1", "0", "0">>
    /\ call.out[3] = <<"#", "9", "6", "0", "0", "0", "0">>

\* C19: colorVariants fails with an error, and returns no colors, for
\* every input that is not '#' followed by exactly six hexadecimal digits.
C19_RejectsOtherTexts ==
    (call.fn = "colorVariants" /\ ~SixDigitHex(call.arg))
       => call.threw /\ call.out = <<>>

\* rejected: a text that starts with a valid color and has one more
\* character, one with a letter that is no hex digit, and the empty text
C19_Witness ==
    /\ call.fn = "colorVariants" /\ call.threw
    /\ \/ call.arg = <<"#", "c", "c", "c", "c", "c", "c", "c">>
       \/ call.arg = <<"#", "c", "c", "c", "c", "c", "g">>
       \/ call.arg = <<>>

\* ------------------------------------------------------------------------
\* The palette after addNewBlockType
\* ------------------------------------------------------------------------
\* C20: after any sequence of addNewBlockType calls every color stored in
\* the palette passes the strict six-digit hex validation, so that no
\* Place with a type of the palette fails building its texture.
C20_PaletteColorsValid ==
    /\ \A type \in DOMAIN colorMapper : SixDigitHex(colorMapper[type])
    /\ (lastOp.op = "click" /\ keyState.isActive)
          => ~TextureThrows(PlaceColor(colorMapper, selectedBlockType))

\* ------------------------------------------------------------------------
\* The projection
\* ------------------------------------------------------------------------
\* C21: getRenderFactor is linear in each axis: one more in render x, the
\* other axes fixed, raises screenX by exactly blockSize = 30 and leaves
\* screenY as it is; one more in render y raises screenY by exactly
\* (2 / 3) * blockSize = 20 and leaves screenX as it is.
C21_ProjectionLinear ==
    call.fn = "getRenderFactor"
       => LET pos == call.arg
              alongX == getRenderFactor(Plus(pos, P3(1, 0, 0)))
              alongY == getRenderFactor(Plus(pos, P3(0, 1, 0)))
          IN  /\ alongX.x = call.out.x + blockSize
              /\ alongX.y = call.out.y
              /\ 3 * (alongY.y - call.out.y) = 2 * blockSize
              /\ alongY.x = call.out.x

\* the projection of a position off every axis
C21_Witness ==
    /\ call.fn = "getRenderFactor"
    /\ call.arg = P3(1, 2, -1)
    /\ call.out = [x |-> blockSize + CosBlock,
                   y |-> 2 * ((2 * blockSize) \div 3) - SinBlock]

\* ------------------------------------------------------------------------
\* The scene and the WorldStore after ticks and edits
\* ------------------------------------------------------------------------
\* C22: after any interleaving of ticks and edits the scene nodes of every
\* Tile correspond one-to-one to the non-Empty blocks the WorldStore holds
\* in the Tile's world box: no position has two nodes, no non-Empty block
\* of the box lacks a node, and no node shows a position held as Empty.
C22_SceneMatchesStore ==
    \A id \in MatrixIds :
        /\ Cardinality(NodePositions(tiles[id])) = Len(tiles[id].children)
        /\ NodePositions(tiles[id]) = StoredIn(tiles[id])

\* ------------------------------------------------------------------------
\* A Place that fails
\* ------------------------------------------------------------------------
\* C23: if a Place fails part-way (the neighbor Tile is not found in the
\* matrix, or the color of the selected type is invalid) the WorldStore
\* and the scene stay consistent: the step has changed either both or
\* neither.
C23_FailedPlaceConsistent ==
    [][(lastOp'.op = "click" /\ keyState.isActive /\ lastOp'.threw)
          => ((tiles' # tiles) <=> (dimension' # dimension))]_vars

\* ------------------------------------------------------------------------
\* A Place across the edge of the matrix
\* ------------------------------------------------------------------------
\* In a click step: the neighbor the latch faces is outside the clicked
\* Tile, and the Tile is at the edge of the matrix the neighbor is across.
AcrossEdge ==
    LET pos == lastOp'.sprite.pos
        idx == tiles[lastOp'.tile].indexPos
        key == keyState.lastKey
    IN  \/ key = 1 /\ pos.z = chunkSize /\ idx.x = Len(rengerGrid) - 1
        \/ key = 2 /\ pos.z = 0 /\ idx.x = 0
        \/ key = 3 /\ pos.x = 0 /\ idx.y = 0
        \/ key = 4 /\ pos.x = chunkSize
              /\ idx.y = Len(rengerGrid[idx.x + 1]) - 1

C25_PlaceKeepsOccupied ==
    [][(PlaceStep /\ ~getBlock(dimension, NeighborPos).empty)
          => (dimension' = dimension /\ tiles' = tiles)]_vars

\* ------------------------------------------------------------------------
\* The height range of the WorldStore
\* ------------------------------------------------------------------------
\* the cells of the WorldStore a step wrote
Written ==
    {p \in DOMAIN dimension \cup DOMAIN dimension' :
        getBlock(dimension', p) # getBlock(dimension, p)}

\* C26: a click hands getBlock no position, and writes no cell, whose z is
\* outside 0..renderChunkHeight - 1; so for the facing up on a block at the
\* top of the range and the facing down on a block at z = 0.
C26_EditsWithinHeight ==
    [][lastOp'.op = "click"
          => \A p \in getBlockCalls(keyState, lastOp'.sprite) \cup Written :
                p.z \in 0..(renderChunkHeight - 1)]_vars

\* ------------------------------------------------------------------------
\* The offset counters
\* ------------------------------------------------------------------------
\* C27: every shift changes one offset counter by one and leaves the other:
\* top currentYOffset - 1, bottom + 1, right currentXOffset + 1, left - 1;
\* so after any shifts currentXOffset is the number of right shifts less
\* the number of left shifts, and currentYOffset the number of bottom
\* shifts less the number of top shifts.
C27_OffsetsCountShifts ==
    /\ currentXOffset = shiftCount["right"] - shiftCount["left"]
    /\ currentYOffset = shiftCount["bottom"] - shiftCount["top"]

\* a right and a left shift have cancelled, after a top shift
C27_Witness ==
    /\ shiftCount["right"] >= 1 /\ shiftCount["left"] >= 1
    /\ shiftCount["top"] = 1
    /\ currentXOffset = 0 /\ currentYOffset = -1

\* ------------------------------------------------------------------------
\* One shift per direction and tick
\* ------------------------------------------------------------------------
\* In a tick step: the state the tasks leave, on which the first test is
\* made (no shift moves the stage)
Moved == [Sys EXCEPT !.stage = stage']
Ran(d) == shiftCount'[d] = shiftCount[d] + 1

C29_OriginsFormLattice ==
    \A r \in Rows : \A c \in Cols(r) :
        /\ TileAt(r, c).y = TileAt(r, 0).y
        /\ (r + 1) \in Rows
              => TileAt(r + 1, 0).y = TileAt(r, 0).y + renderChunkPixiHeight
        /\ (c + 1) \in Cols(r)
              => TileAt(r, c + 1).x = TileAt(r, c).x + renderChunkPixiWidth

\* shifts on both axes have run, a column shift after a row shift
C29_Witness ==
    /\ lastOp.op = "tick" /\ Firing = {}
    /\ shiftCount["top"] >= 2 /\ shiftCount["right"] >= 1
    /\ \A r \in Rows :
          TileAt(r, 0).y = TileAt(0, 0).y + r * renderChunkPixiHeight

\* ------------------------------------------------------------------------
\* The selected type
\* ------------------------------------------------------------------------
\* C30: selectedBlockType is the type of the last inventory:select event
\* ("grass" before the first) and no other handler changes it; a Place
\* stores a block of the type selected when the click arrives, and the node
\* it adds has the palette color of that type.
C30_PlaceUsesSelectedType ==
    [][/\ lastOp'.op = "inventory:select" => selectedBlockType' = lastOp'.key
       /\ lastOp'.op # "inventory:select"
             => selectedBlockType' = selectedBlockType
       /\ (lastOp'.op = "click" /\ keyState.isActive)
             => /\ \A p \in Written :
                      getBlock(dimension', p) = Block(selectedBlockType)
                /\ \A id \in GrownTiles :
                      LastNode(tiles'[id]).color
                          = colorMapper[selectedBlockType]]_vars

\* a Place of the type at load, a select, and a Place of the selected type
\* under the latch as it was
C30_Witness ==
    /\ lastOp.op = "click" /\ ~lastOp.threw /\ edits = 2
    /\ selectedBlockType = "stone" /\ keyState.isActive
    /\ \E p, q \in DOMAIN dimension :
          /\ dimension[p] = Block("grass")
          /\ dimension[q] = Block("stone")
    /\ \E id \in MatrixIds :
          Len(tiles[id].children) >= 1
             /\ LastNode(tiles[id]).color = colorMapper["stone"]

\* ------------------------------------------------------------------------
\* The draw key
\* ------------------------------------------------------------------------
\* C31: of two blocks of one Tile with render y in 0..renderChunkHeight - 1
\* the one with the larger x + z has the strictly larger key whatever the
\* y values, and for equal x + z the one with the smaller render y has the
\* strictly larger key.
C31_DrawKeyOrder ==
    call.fn = "zIndex"
       => LET p == call.arg[1]
              q == call.arg[2]
          IN  /\ p.x + p.z > q.x + q.z => call.out[1] > call.out[2]
              /\ (p.x + p.z = q.x + q.z /\ p.y < q.y)
                    => call.out[1] > call.out[2]

\* the block further back is at the top of the height range, the nearer
\* one at the bottom, and their keys are those of the formula
C31_Witness ==
    /\ call.fn = "zIndex"
    /\ call.arg = <<P3(1, renderChunkHeight - 1, 1), P3(1, 0, 0)>>
    /\ call.out = <<200000 - 10 * (renderChunkHeight - 1), 100000>>

\* ------------------------------------------------------------------------
\* The effect of addNewBlockType
\* ------------------------------------------------------------------------
\* In a newBlock step: the entries handed to addNewBlockType, those it
\* takes, and the type an entry names
Handed == call'.out
Taken == {i \in 1..Len(Handed) : IncludesHash(Handed[i].value)}
TypeOf(i) == Head(Handed[i].key)

\* the types no taken entry names keep their palette entry, or their
\* absence from the palette
OthersKept ==
    /\ DOMAIN colorMapper \subseteq DOMAIN colorMapper'
    /\ \A type \in DOMAIN colorMapper' :
          (\A i \in Taken : TypeOf(i) # type)
             => (type \in DOMAIN colorMapper
                    /\ colorMapper'[type] = colorMapper[type])

\* one inventory item for every taken entry, the latest first
ItemsAdded ==
    /\ Len(items') = Len(items) + Cardinality(Taken)
    /\ \A n \in 1..Len(items) :
          items'[Len(items') - Len(items) + n] = items[n]
    /\ \A i \in Taken :
          \E n \in 1..(Len(items') - Len(items)) :
              items'[n] = [type |-> TypeOf(i), color |-> Handed[i].value]

C33_RecipeColorInPalette ==
    call.fn = "newBlock"
       => \A i \in 1..Len(call.arg) :
             call.arg[i].value.object
                => /\ call.arg[i].key \in DOMAIN colorMapper
                   /\ colorMapper[call.arg[i].key]
                        = call.arg[i].value.entries[1].value.text

\* ------------------------------------------------------------------------
\* The pan tasks
\* ------------------------------------------------------------------------
\* the directions of the keys w, s, a, d
DirectionOf ==
    ("w" :> "up") @@ ("s" :> "down") @@ ("a" :> "left") @@ ("d" :> "right")

Pans(direction) == IF direction \in tickerTaskList THEN 1 ELSE 0

\* C34: after a player:move event the task list holds exactly the
\* directions of the pressed keys among w, s, a, d, whatever it held; a
\* tick moves the stage by 4 * deltaTime for every direction of the list,
\* so that opposite directions cancel and an empty list leaves the stage.
C34_PanTasksFollowKeys ==
    [][/\ lastOp'.op = "player:move"
             => tickerTaskList'
                  = {DirectionOf[k] : k \in call'.arg \cap DOMAIN DirectionOf}
       /\ lastOp'.op = "tick"
             => \E deltaTime \in DeltaTimes :
                   /\ stage'.x = stage.x + 4 * deltaTime
                                    * (Pans("left") - Pans("right"))
                   /\ stage'.y = stage.y + 4 * deltaTime
                                    * (Pans("up") - Pans("down"))]_vars

\* a tick with w and s held after the stage had moved: the stage rests
C34_Witness ==
    /\ lastOp.op = "tick"
    /\ call.fn = "handleKeyChange" /\ call.arg = {"w", "s"}
    /\ tickerTaskList = {"up", "down"}
    /\ stage.x # 0 /\ stage.y = 0

\* ------------------------------------------------------------------------
\* The wheel over the inventory
\* ------------------------------------------------------------------------
\* the last slot the inventory draws
LastSlot == Min(LENGTH, Len(items)) - 1

\* C35: every wheel event selects a slot of 0..min(9, n) - 1 and emits
\* inventory:select with the item of that slot; a turn down goes from slot
\* i to i + 1 and from the last drawn slot to 0, a turn up from i to i - 1
\* and from slot 0, or from no active slot, to the last drawn slot.
C35_WheelSelectsDrawnSlot ==
    [][lastOp'.op = "wheel"
          => LET i == activeIndex
                 j == call'.out
                 deltaY == call'.arg
             IN  /\ ~call'.threw
                 /\ j \in 0..LastSlot
                 /\ selectedBlockType' = items[j + 1].type
                 /\ deltaY > 0 => j = (IF i = LastSlot THEN 0 ELSE i + 1)
                 /\ deltaY < 0 => j = (IF i <= 0 THEN LastSlot ELSE i - 1)
      ]_vars

\* with more items than slots a turn up from slot 0 has selected the last
\* drawn slot
C35_Witness ==
    /\ lastOp.op = "wheel" /\ call.arg < 0
    /\ Len(items) > LENGTH
    /\ call.out = LENGTH - 1
    /\ selectedBlockType = items[LENGTH].type

\* ------------------------------------------------------------------------
\* The two fields of the key latch
\* ------------------------------------------------------------------------
\* C36: keyState.isActive is true exactly when keyState.lastKey is not
\* null, and a lastKey that is not null is an integer of 1..6.
C36_LatchFieldsAgree ==
    /\ keyState.isActive <=> keyState.lastKey # null
    /\ keyState.lastKey # null => keyState.lastKey \in 1..6

\* the keydown of 6 has set both fields of the latch
C36_Witness ==
    /\ lastOp.op = "keydown" /\ lastOp.key = "6"
    /\ keyState = [lastKey |-> 6, isActive |-> TRUE]

\* ------------------------------------------------------------------------
\* The stored center
\* ------------------------------------------------------------------------
\* C37: after any shifts from the default center the stored center is the
\* initial center moved by the net shifts: center.x = currentXOffset and
\* center.y = currentYOffset.
C37_CenterFollowsShifts ==
    /\ center.x = currentXOffset
    /\ center.y = currentYOffset

\* ------------------------------------------------------------------------
\* The point in the polygon
\* ------------------------------------------------------------------------
\* Twice the signed area of the triangle A, B, P: positive when P is to
\* the left of the edge from A to B
Left(A, B, P) == (B.x - A.x) * (P.y - A.y) - (B.y - A.y) * (P.x - A.x)

Edges(Shape) ==
    {<<Shape[i], Shape[(i % Len(Shape)) + 1]>> : i \in 1..Len(Shape)}

\* for a convex polygon given counter-clockwise: the points strictly
\* inside it, and the points outside it (the rest are on its boundary)
Interior(Shape, P) == \A e \in Edges(Shape) : Left(e[1], e[2], P) > 0
Exterior(Shape, P) == \E e \in Edges(Shape) : Left(e[1], e[2], P) < 0

\* C38: isPointInside(Shape, P) is true for every point strictly inside
\* the parallelogram Shape and false for every point outside it.
C38_InsideExactly ==
    call.fn = "isPointInside"
       => /\ Interior(call.arg.Shape, call.arg.P) => call.out = TRUE
          /\ Exterior(call.arg.Shape, call.arg.P) => call.out = FALSE

====
